---- MODULE Spec2Model ----
(***************************************************************************)
(* A model of the skillforge backend gateway (src/backend/app):            *)
(*   - the completion stream engine, OpenAIService.stream_chat_completion, *)
(*     driven by the chat endpoint's generate() wrapper;                   *)
(*   - the prompt cache and the prompt composer of PromptService;          *)
(*   - question generation and its endpoint.                               *)
(* Text is a sequence of one-character strings, so that containment,       *)
(* splitting and trimming are computed and not assumed.                    *)
(***************************************************************************)
EXTENDS Integers, Sequences, FiniteSets, TLC

VARIABLES
    \* ---- chat endpoint / stream engine (chat.py, openai_service.py) ----
    pc,               \* where generate() / stream_chat_completion is suspended
    clock,            \* the event loop's time, in seconds
    deltas,           \* chunks received from the provider so far: [content, t]
    events,           \* events delivered to the caller: [event, data, t, k]
    accumulated_text, \* local of stream_chat_completion
    delimiter_sent,   \* local of stream_chat_completion
    last_ping,        \* local of stream_chat_completion
    current_time,     \* local of stream_chat_completion
    llm_requests,     \* upstream chat.completions.create calls made
    compose_failure,  \* how compose_system_prompt failed in generate(), or "none"
    upstream_error,   \* the message of the provider's exception, or <<>>
    validated_text,   \* the text handed to _validate_output, or <<"unset">>
    \* ---- prompt store and prompt cache (prompt_service.py) ----
    store,            \* the prompt tables: identifier -> version -> row state
    cache,            \* _prompt_cache: entries [key, value, expires], least
                      \* recently used first
    since,            \* per key: the last fetch that queried the store, and
                      \* what happened to the cache after it
    last_op,          \* the last operation on PromptService and its outcome
    \* ---- one call of a function of the services ----
    call,             \* the function called and its arguments
    ret,              \* what it returned or raised, once it has
    response          \* the response of the endpoint that called it, once made;
                      \* for a function called twice, what the second call
                      \* returned

streamVars == <<pc, clock, deltas, events, accumulated_text, delimiter_sent,
                last_ping, current_time, llm_requests, compose_failure,
                upstream_error, validated_text>>

cacheVars == <<store, cache, since, last_op>>

callVars == <<call, ret, response>>

vars == <<pc, clock, deltas, events, accumulated_text, delimiter_sent,
          last_ping, current_time, llm_requests, compose_failure,
          upstream_error, validated_text, store, cache, since, last_op,
          call, ret, response>>

-----------------------------------------------------------------------------
(* Bounds of the model *)

MaxDeltas == 3

\* versions a prompt row may have
MaxVersion == 2

\* how often the clock advances while the cache is in use
MaxTicks == 3

-----------------------------------------------------------------------------
(* Text helpers *)

SPEC_DELIMITER ==
    <<"-", "-", "-", "S", "P", "E", "C", "_", "S", "T", "A", "R", "T", "-", "-", "-">>

ping_interval == 10

\* str.isspace() on one character, for the characters the model uses
IsSpace(c) == c \in {" ", "\n"}

\* SPEC_DELIMITER in text
ContainsDelimiter(text) ==
    \E i \in 1..(Len(text) - Len(SPEC_DELIMITER) + 1) :
        SubSeq(text, i, i + Len(SPEC_DELIMITER) - 1) = SPEC_DELIMITER

\* index of the first occurrence of SPEC_DELIMITER in text (text contains it)
FirstDelimiterIndex(text) ==
    CHOOSE i \in 1..(Len(text) - Len(SPEC_DELIMITER) + 1) :
        /\ SubSeq(text, i, i + Len(SPEC_DELIMITER) - 1) = SPEC_DELIMITER
        /\ \A j \in 1..(i - 1) :
               SubSeq(text, j, j + Len(SPEC_DELIMITER) - 1) # SPEC_DELIMITER

\* text.split(SPEC_DELIMITER, 1) for a text that contains the delimiter
SplitAtDelimiter(text) ==
    LET i == FirstDelimiterIndex(text)
    IN  <<SubSeq(text, 1, i - 1),
          SubSeq(text, i + Len(SPEC_DELIMITER), Len(text))>>

\* str.lstrip()
RECURSIVE Lstrip(_)
Lstrip(s) ==
    IF s = <<>> THEN <<>>
    ELSE IF IsSpace(Head(s)) THEN Lstrip(Tail(s)) ELSE s

\* the characters of a string literal, written out
Str_ws      == <<"\n">>
Str_c       == <<" ", "c">>
Str_half1   == <<"-", "-", "-", "S", "P", "E", "C", "_">>
Str_half2   == <<"S", "T", "A", "R", "T", "-", "-", "-", "\n", "d">>
Str_whole   == <<"b">> \o SPEC_DELIMITER \o <<" ">>

\* chunk.choices[0].delta.content of the chunks the provider may send; <<>> is a
\* chunk without content (no choices, content None or "": all falsy at line 103)
Chunks == {<<>>, Str_ws, Str_c, Str_half1, Str_half2, Str_whole}

\* seconds that may pass while awaiting the next chunk, the end of the stream
\* or its failure: under the ping interval, twice makes it exactly; over it
Gaps == {5, 11}

\* str(e) of the exceptions the provider may raise
UpstreamMessages == {<<"Connection error.">>}

FragmentStatus == {"found", "absent", "error"}

-----------------------------------------------------------------------------
(* chat.generate and OpenAIService.stream_chat_completion *)

\* an event as the caller receives it, with the time and the number of chunks
\* received when it was yielded
Event(ev, data, t, k) == [event |-> ev, data |-> data, t |-> t, k |-> k]

\* line 98
PingDue(now, lp) == now - lp >= ping_interval

\* line 108
DelimiterDetected_NoFlag(sent, acc) == ContainsDelimiter(acc)
DelimiterDetected(sent, acc) == ~sent /\ ContainsDelimiter(acc)

\* line 123
PostDelimiter_NoStrip(part) == part
PostDelimiter(part) == Lstrip(part)

\* compose_system_prompt as generate() sees it: the fetches in order base,
\* spec mode, agent (only when an agent id is given); a failing store raises,
\* an absent base or spec mode raises ValueError, an absent agent is tolerated
ComposeStatus_AgentRequired(base, mode, agentGiven, agent) ==
    IF base = "error" THEN "Exception"
    ELSE IF base = "absent" THEN "ValueError"
    ELSE IF mode = "error" THEN "Exception"
    ELSE IF mode = "absent" THEN "ValueError"
    ELSE IF agentGiven /\ agent = "error" THEN "Exception"
    ELSE IF agentGiven /\ agent = "absent" THEN "ValueError"
    ELSE "ok"

ComposeStatus(base, mode, agentGiven, agent) ==
    IF base = "error" THEN "Exception"
    ELSE IF base = "absent" THEN "ValueError"
    ELSE IF mode = "error" THEN "Exception"
    ELSE IF mode = "absent" THEN "ValueError"
    ELSE IF agentGiven /\ agent = "error" THEN "Exception"
    ELSE "ok"

\* the data of the error event generate() yields for a failed composition
ComposeErrorData(status) ==
    IF status = "ValueError" THEN <<"prompt not found">>
    ELSE <<"An unexpected error occurred">>

ProcessContent_SkipWhitespace(c, evs, now, k) ==
    IF c # <<>> /\ Lstrip(c) # <<>>
    THEN LET acc == accumulated_text \o c
         IN  /\ accumulated_text' = acc
             /\ IF DelimiterDetected(delimiter_sent, acc)
                THEN /\ events' = Append(evs, Event("delimiter", SPEC_DELIMITER, now, k))
                     /\ pc' = "y_delimiter"
                ELSE /\ events' = Append(evs, Event("token", c, now, k))
                     /\ pc' = "y_token"
    ELSE /\ accumulated_text' = accumulated_text \o c
         /\ events' = evs
         /\ pc' = "iter"

\* lines 103-132 up to the first yield, for the chunk content c; evs are the
\* events delivered so far
ProcessContent(c, evs, now, k) ==
    IF c # <<>>
    THEN LET acc == accumulated_text \o c
         IN  /\ accumulated_text' = acc
             /\ IF DelimiterDetected(delimiter_sent, acc)
                THEN /\ events' = Append(evs, Event("delimiter", SPEC_DELIMITER, now, k))
                     /\ pc' = "y_delimiter"
                ELSE /\ events' = Append(evs, Event("token", c, now, k))
                     /\ pc' = "y_token"
    ELSE /\ accumulated_text' = accumulated_text
         /\ events' = evs
         /\ pc' = "iter"

\* generate(), lines 40-84 up to the first suspension: the composition, and on
\* success the start of stream_chat_completion up to its await of create()
ChatGenerate_OpenFirst(base, mode, agentGiven, agent) ==
    LET status == ComposeStatus(base, mode, agentGiven, agent)
    IN  /\ pc = "start"
        /\ llm_requests' = llm_requests + 1
        /\ last_ping' = clock
        /\ IF status = "ok"
           THEN /\ pc' = "creating"
                /\ UNCHANGED <<events, compose_failure>>
           ELSE /\ compose_failure' = status
                /\ events' = Append(events, Event("error", ComposeErrorData(status), clock, 0))
                /\ pc' = "y_error"
        /\ UNCHANGED <<clock, deltas, accumulated_text, delimiter_sent,
                       current_time, upstream_error, validated_text>>
        /\ UNCHANGED <<cacheVars, callVars>>

ChatGenerate(base, mode, agentGiven, agent) ==
    LET status == ComposeStatus(base, mode, agentGiven, agent)
    IN  /\ pc = "start"
        /\ IF status = "ok"
           THEN /\ pc' = "creating"
                /\ last_ping' = clock
                /\ llm_requests' = llm_requests + 1
                /\ UNCHANGED <<events, compose_failure>>
           ELSE /\ compose_failure' = status
                /\ events' = Append(events, Event("error", ComposeErrorData(status), clock, 0))
                /\ pc' = "y_error"
                /\ UNCHANGED <<last_ping, llm_requests>>
        /\ UNCHANGED <<clock, deltas, accumulated_text, delimiter_sent,
                       current_time, upstream_error, validated_text>>
        /\ UNCHANGED <<cacheVars, callVars>>

ChatStart ==
    \E base \in FragmentStatus, mode \in FragmentStatus,
       agentGiven \in BOOLEAN, agent \in FragmentStatus :
        ChatGenerate(base, mode, agentGiven, agent)

\* line 86: the await of create() returns the stream (the time it took is
\* counted in the gap before the first chunk, the end or the failure)
CreateReturns ==
    /\ pc = "creating"
    /\ pc' = "iter"
    /\ UNCHANGED <<clock, deltas, events, accumulated_text, delimiter_sent, last_ping,
                   current_time, llm_requests, compose_failure, upstream_error,
                   validated_text>>
    /\ UNCHANGED <<cacheVars, callVars>>

\* lines 94-132: the stream delivers a chunk; the body runs to its first yield
ReceiveChunk ==
    /\ pc = "iter"
    /\ Len(deltas) < MaxDeltas
    /\ \E gap \in Gaps, c \in Chunks :
        /\ clock' = clock + gap
        /\ deltas' = Append(deltas, [content |-> c, t |-> clock'])
        /\ current_time' = clock'
        /\ IF PingDue(clock', last_ping)
           THEN /\ events' = Append(events, Event("ping", <<>>, clock + gap, Len(deltas) + 1))
                /\ pc' = "y_ping"
                /\ UNCHANGED accumulated_text
           ELSE ProcessContent(c, events, clock + gap, Len(deltas) + 1)
    /\ UNCHANGED <<delimiter_sent, last_ping, llm_requests, compose_failure,
                   upstream_error, validated_text>>
    /\ UNCHANGED <<cacheVars, callVars>>

\* line 100 onwards: the caller took the ping
ResumeAfterPing ==
    /\ pc = "y_ping"
    /\ last_ping' = current_time
    /\ ProcessContent(deltas[Len(deltas)].content, events, clock, Len(deltas))
    /\ UNCHANGED <<clock, deltas, delimiter_sent, current_time, llm_requests,
                   compose_failure, upstream_error, validated_text>>
    /\ UNCHANGED <<cacheVars, callVars>>

\* lines 120-129: the caller took the delimiter
ResumeAfterDelimiter ==
    /\ pc = "y_delimiter"
    /\ delimiter_sent' = TRUE
    /\ LET parts == SplitAtDelimiter(accumulated_text)
           post_delimiter == PostDelimiter(parts[2])
       IN  IF post_delimiter # <<>>
           THEN /\ events' = Append(events, Event("token", post_delimiter, clock, Len(deltas)))
                /\ pc' = "y_post"
                /\ UNCHANGED accumulated_text
           ELSE /\ accumulated_text' = SPEC_DELIMITER \o parts[2]
                /\ pc' = "iter"
                /\ UNCHANGED events
    /\ UNCHANGED <<clock, deltas, last_ping, current_time, llm_requests,
                   compose_failure, upstream_error, validated_text>>
    /\ UNCHANGED <<cacheVars, callVars>>

\* lines 127-129: the caller took the post-delimiter token
ResumeAfterPostToken ==
    /\ pc = "y_post"
    /\ accumulated_text' = SPEC_DELIMITER \o SplitAtDelimiter(accumulated_text)[2]
    /\ pc' = "iter"
    /\ UNCHANGED <<clock, deltas, events, delimiter_sent, last_ping, current_time,
                   llm_requests, compose_failure, upstream_error, validated_text>>
    /\ UNCHANGED <<cacheVars, callVars>>

\* line 132: the caller took a regular token
ResumeAfterToken ==
    /\ pc = "y_token"
    /\ pc' = "iter"
    /\ UNCHANGED <<clock, deltas, events, accumulated_text, delimiter_sent,
                   last_ping, current_time, llm_requests, compose_failure,
                   upstream_error, validated_text>>
    /\ UNCHANGED <<cacheVars, callVars>>

StreamEnds_AutoRepair ==
    /\ pc = "iter"
    /\ \E gap \in Gaps :
        /\ clock' = clock + gap
        /\ IF ContainsDelimiter(accumulated_text)
           THEN /\ events' = Append(events, Event("done", <<>>, clock + gap, Len(deltas)))
                /\ pc' = "y_done"
                /\ UNCHANGED llm_requests
           ELSE /\ llm_requests' = llm_requests + 1
                /\ pc' = "creating"
                /\ UNCHANGED events
    /\ validated_text' = accumulated_text
    /\ UNCHANGED <<deltas, accumulated_text, delimiter_sent, last_ping,
                   current_time, compose_failure, upstream_error>>
    /\ UNCHANGED <<cacheVars, callVars>>

\* lines 134-143: the upstream stream ends normally
StreamEnds ==
    /\ pc = "iter"
    /\ \E gap \in Gaps :
        /\ clock' = clock + gap
        /\ events' = Append(events, Event("done", <<>>, clock + gap, Len(deltas)))
    /\ validated_text' = accumulated_text
    /\ pc' = "y_done"
    /\ UNCHANGED <<deltas, accumulated_text, delimiter_sent, last_ping,
                   current_time, llm_requests, compose_failure, upstream_error>>
    /\ UNCHANGED <<cacheVars, callVars>>

\* after line 143 the generator returns
ResumeAfterDone ==
    /\ pc = "y_done"
    /\ pc' = "closed"
    /\ UNCHANGED <<clock, deltas, events, accumulated_text, delimiter_sent,
                   last_ping, current_time, llm_requests, compose_failure,
                   upstream_error, validated_text>>
    /\ UNCHANGED <<cacheVars, callVars>>

\* lines 145-147: the except clause, for an exception with str(e) = msg
StreamExcept_Swallow(msg, now) ==
    /\ upstream_error' = msg
    /\ pc' = "closed"
    /\ UNCHANGED events

StreamExcept(msg, now) ==
    /\ upstream_error' = msg
    /\ events' = Append(events, Event("error", msg, now, Len(deltas)))
    /\ pc' = "y_error"

\* create() or the iteration of the stream raises
UpstreamFails ==
    /\ pc \in {"creating", "iter"}
    /\ \E gap \in Gaps, msg \in UpstreamMessages :
        /\ clock' = clock + gap
        /\ StreamExcept(msg, clock + gap)
    /\ UNCHANGED <<deltas, accumulated_text, delimiter_sent, last_ping,
                   current_time, llm_requests, compose_failure, validated_text>>
    /\ UNCHANGED <<cacheVars, callVars>>

\* after line 147 (or chat.py line 88 / 91) the generator returns
ResumeAfterError_Finally ==
    /\ pc = "y_error"
    /\ events' = Append(events, Event("done", <<>>, clock, Len(deltas)))
    /\ pc' = "closed"
    /\ UNCHANGED <<clock, deltas, accumulated_text, delimiter_sent,
                   last_ping, current_time, llm_requests, compose_failure,
                   upstream_error, validated_text>>
    /\ UNCHANGED <<cacheVars, callVars>>

ResumeAfterError ==
    /\ pc = "y_error"
    /\ pc' = "closed"
    /\ UNCHANGED <<clock, deltas, events, accumulated_text, delimiter_sent,
                   last_ping, current_time, llm_requests, compose_failure,
                   upstream_error, validated_text>>
    /\ UNCHANGED <<cacheVars, callVars>>

Disconnect_CaughtAsException ==
    /\ pc \in {"creating", "iter", "y_ping", "y_delimiter", "y_post", "y_token",
               "y_done", "y_error"}
    /\ pc' = "cancelled"
    /\ events' = Append(events, Event("error", <<"">>, clock, Len(deltas)))
    /\ UNCHANGED <<clock, deltas, accumulated_text, delimiter_sent,
                   last_ping, current_time, llm_requests, compose_failure,
                   upstream_error, validated_text>>
    /\ UNCHANGED <<cacheVars, callVars>>

\* the caller disconnects: the response task is cancelled and CancelledError,
\* not an Exception, ends the generator where it is suspended
Disconnect ==
    /\ pc \in {"creating", "iter", "y_ping", "y_delimiter", "y_post", "y_token",
               "y_done", "y_error"}
    /\ pc' = "cancelled"
    /\ UNCHANGED <<clock, deltas, events, accumulated_text, delimiter_sent,
                   last_ping, current_time, llm_requests, compose_failure,
                   upstream_error, validated_text>>
    /\ UNCHANGED <<cacheVars, callVars>>

InitStream ==
    /\ pc = "start"
    /\ clock = 0
    /\ deltas = <<>>
    /\ events = <<>>
    /\ accumulated_text = <<>>
    /\ delimiter_sent = FALSE
    /\ last_ping = 0
    /\ current_time = 0
    /\ llm_requests = 0
    /\ compose_failure = "none"
    /\ upstream_error = <<>>
    /\ validated_text = <<"unset">>
    /\ store = [id \in {} |-> <<>>]
    /\ cache = <<>>
    /\ since = <<>>
    /\ last_op = <<>>
    /\ call = <<>>
    /\ ret = <<>>
    /\ response = <<>>

NextStream ==
    \/ ChatStart
    \/ CreateReturns
    \/ ReceiveChunk
    \/ ResumeAfterPing
    \/ ResumeAfterDelimiter
    \/ ResumeAfterPostToken
    \/ ResumeAfterToken
    \/ StreamEnds
    \/ ResumeAfterDone
    \/ UpstreamFails
    \/ ResumeAfterError
    \/ Disconnect

SpecStream == InitStream /\ [][NextStream]_vars

-----------------------------------------------------------------------------
(* Properties of the stream engine *)

\* the concatenation of the content of chunks i..j
RECURSIVE ConcatDeltas(_, _)
ConcatDeltas(i, j) ==
    IF i > j THEN <<>> ELSE ConcatDeltas(i, j - 1) \o deltas[j].content

AllContent == ConcatDeltas(1, Len(deltas))

\* the number of places at which the delimiter occurs in text
DelimiterCount(text) ==
    Cardinality({i \in 1..(Len(text) - Len(SPEC_DELIMITER) + 1) :
                    SubSeq(text, i, i + Len(SPEC_DELIMITER) - 1) = SPEC_DELIMITER})

EventIdx(kinds) == {i \in DOMAIN events : events[i].event \in kinds}

\* the data of the token events after position i, in order
RECURSIVE TokensFrom(_)
TokensFrom(i) ==
    IF i > Len(events) THEN <<>>
    ELSE IF events[i].event = "token"
         THEN <<events[i].data>> \o TokensFrom(i + 1)
         ELSE TokensFrom(i + 1)

RECURSIVE Join(_)
Join(ss) == IF ss = <<>> THEN <<>> ELSE Head(ss) \o Join(Tail(ss))

\* every chunk received has been processed to the end of the loop body
AllProcessed == pc \in {"iter", "y_done", "y_error", "closed"}

\* C1: every invocation of stream_chat_completion emits exactly one terminal
\* event (done or error) and nothing after it: at any moment at most one
\* terminal event has been emitted and it is the last event, and a generator
\* that ran to its end has emitted one.
C1_OneTerminalEventLast ==
    /\ Cardinality(EventIdx({"done", "error"})) <= 1
    /\ \A i \in EventIdx({"done", "error"}) : i = Len(events)
    /\ pc = "closed" => Cardinality(EventIdx({"done", "error"})) = 1

C1_Witness ==
    /\ pc = "closed"
    /\ compose_failure = "none"
    /\ Len(events) >= 3
    /\ events[Len(events)].event = "error"
    /\ EventIdx({"ping"}) # {}

\* C2: at most one delimiter event per stream, whatever the deltas are, and it
\* is emitted while processing the first delta after which the concatenation of
\* the deltas contains the marker (and it is emitted then).
C2_OneDelimiterAtFirstDetection ==
    /\ Cardinality(EventIdx({"delimiter"})) <= 1
    /\ \A i \in EventIdx({"delimiter"}) :
          /\ ContainsDelimiter(ConcatDeltas(1, events[i].k))
          /\ ~ContainsDelimiter(ConcatDeltas(1, events[i].k - 1))
    /\ (AllProcessed /\ ContainsDelimiter(AllContent)) => EventIdx({"delimiter"}) # {}

C2_Witness ==
    /\ pc = "closed"
    /\ DelimiterCount(AllContent) >= 2
    /\ Cardinality(EventIdx({"delimiter"})) = 1
    /\ \E i \in EventIdx({"delimiter"}) : events[i].k < Len(deltas)

\* the text after the first occurrence of the delimiter
PostText(text) == SplitAtDelimiter(text)[2]

\* the token data after the delimiter event, the first left-trimmed, joined
TrimFirstJoin(tokens) ==
    IF tokens = <<>> THEN <<>> ELSE Lstrip(Head(tokens)) \o Join(Tail(tokens))

\* C3 as stated: with the delimiter exactly once in the concatenation, there
\* is exactly one delimiter event and the tokens after it, the first
\* left-trimmed, concatenate to exactly the text following the delimiter (read
\* generously: to that text or to that text without its leading whitespace).
C3_Original ==
    (AllProcessed /\ DelimiterCount(AllContent) = 1) =>
        /\ Cardinality(EventIdx({"delimiter"})) = 1
        /\ \A i \in EventIdx({"delimiter"}) :
              TrimFirstJoin(TokensFrom(i + 1))
                  \in {PostText(AllContent), Lstrip(PostText(AllContent))}

\* C3 as amended: with the delimiter exactly once in the concatenation, there
\* is exactly one delimiter event and the tokens after it concatenate to the
\* text following the delimiter less the whitespace that follows the marker
\* within the delta of the detection; so both agree once left-trimmed.
C3_TokensAfterDelimiter ==
    (AllProcessed /\ DelimiterCount(AllContent) = 1) =>
        /\ Cardinality(EventIdx({"delimiter"})) = 1
        /\ \A i \in EventIdx({"delimiter"}) :
              LET k == events[i].k
                  tokens == Join(TokensFrom(i + 1))
              IN  /\ tokens = Lstrip(PostText(ConcatDeltas(1, k)))
                                  \o ConcatDeltas(k + 1, Len(deltas))
                  /\ Lstrip(tokens) = Lstrip(PostText(AllContent))

\* the marker split over two deltas, then whitespace-led text in the same and
\* in a later delta
C3_Witness ==
    /\ pc = "closed"
    /\ DelimiterCount(AllContent) = 1
    /\ Len(deltas) = 3
    /\ ~ContainsDelimiter(deltas[2].content)
    /\ \E i \in EventIdx({"delimiter"}) :
          /\ events[i].k = 2
          /\ Len(TokensFrom(i + 1)) = 2
          /\ PostText(AllContent) # Lstrip(PostText(AllContent))

\* the index of the last chunk with content among the first k, 0 if none
LastContentIdx(k) ==
    LET S == {i \in 1..k : deltas[i].content # <<>>}
    IN  IF S = {} THEN 0 ELSE CHOOSE i \in S : \A j \in S : j <= i

ChunkTime(i) == IF i = 0 THEN 0 ELSE deltas[i].t

\* the last chunk with content received before the cause of event j: a token
\* is caused by its own chunk, done and error by the end or failure
SilenceStart(j) ==
    IF events[j].event = "token"
    THEN LastContentIdx(events[j].k - 1)
    ELSE LastContentIdx(events[j].k)

\* C4 as stated: when no content delta arrived for longer than the ping
\* interval after a content delta, a ping is emitted before the next token,
\* done or error event, whether a delta, the end of the stream or an error
\* ends the silence.
C4_PingBeforeNextEvent ==
    \A j \in EventIdx({"token", "done", "error"}) :
        (/\ SilenceStart(j) > 0
         /\ events[j].t - ChunkTime(SilenceStart(j)) > ping_interval) =>
            \E p \in EventIdx({"ping"}) : p < j /\ events[p].k > SilenceStart(j)

\* what the code does give: the ping before a token that ends the silence
PingBeforeTokenAfterSilence ==
    \A j \in EventIdx({"token"}) :
        events[j].t - ChunkTime(SilenceStart(j)) > ping_interval =>
            \E p \in EventIdx({"ping"}) : p < j /\ events[p].k > SilenceStart(j)

\* C7: a failure of the upstream after the stream started, before the first
\* delta or between deltas, reaches the caller as exactly one error event that
\* carries the failure's message and is the last event; no done event is
\* emitted before or after it, and the generator then returns.
C7_UpstreamFailureIsOneErrorEvent ==
    upstream_error # <<>> =>
        /\ pc \in {"y_error", "closed", "cancelled"}
        /\ Cardinality(EventIdx({"error"})) = 1
        /\ EventIdx({"done"}) = {}
        /\ events[Len(events)].event = "error"
        /\ events[Len(events)].data = upstream_error
        /\ events[Len(events)].data # <<>>

C7_Witness ==
    /\ pc = "closed"
    /\ upstream_error # <<>>
    /\ EventIdx({"token"}) # {}
    /\ Len(deltas) >= 2

\* C8: when composition fails in a chat request (base or spec-mode fragment
\* absent, or the store failing), no upstream request has been opened and no
\* stream event precedes the failure: the caller gets the error event alone.
C8_ComposeFailsBeforeStreaming ==
    compose_failure # "none" =>
        /\ llm_requests = 0
        /\ deltas = <<>>
        /\ Len(events) = 1
        /\ events[1].event = "error"
        /\ upstream_error = <<>>

C8_Witness ==
    /\ compose_failure = "ValueError"
    /\ pc = "closed"

-----------------------------------------------------------------------------
(* The prompt store and the prompt cache: PromptService.get_base_prompt,  *)
(* get_spec_mode_prompt and get_agent_prompt, which differ only in the    *)
(* table and the key prefix, over cachetools.TTLCache(maxsize, ttl)       *)

maxsize == 100

prompt_cache_ttl_seconds == 300

\* a fetch's outcome: a row found, None returned, or the store's exception
NoValue == [status |-> "none", text |-> <<>>, version |-> 0]

Raised == [status |-> "raised", text |-> <<>>, version |-> 0]

NoFetch == [some |-> FALSE, t |-> 0, result |-> NoValue, cleared |-> FALSE]

Versions == 1..MaxVersion

\* seconds by which the clock may advance between two operations
TimeSteps == {150}

\* the states of the rows of one identifier: per version, no row, a row with
\* is_active false, a row with is_active true
RowStates == [Versions -> {"none", "inactive", "active"}]

\* the rows of the spec mode: absent or all active
ModeRowStates == {[v \in Versions |-> "none"], [v \in Versions |-> "active"]}

\* the prompts the callers ask for: <<prefix, identifier>>
BaseTarget == <<"base", "spec-generation">>
ModeTarget == <<"mode", "mvp">>
Targets == {BaseTarget, ModeTarget}

\* the fetches the callers make: target and version argument (0 stands for
\* None and for 0, which the code treats alike)
Requests == {<<BaseTarget, 0>>, <<ModeTarget, 0>>}

\* _cache_key(prefix, identifier, version or 0)
CacheKey(target, version) == <<target[1], target[2], version>>

RequestKeys == {CacheKey(r[1], r[2]) : r \in Requests}

\* the query of lines 71-83: the active rows of the identifier, the row of the
\* version asked for or else the one with the highest version; 0 if no row
QueryStore_AnyRow(rows, version) ==
    LET found == {v \in Versions : rows[v] # "none"}
        match == IF version # 0 THEN found \cap {version} ELSE found
    IN  IF match = {} THEN 0
        ELSE CHOOSE v \in match : \A w \in match : w <= v

QueryStore(rows, version) ==
    LET active == {v \in Versions : rows[v] = "active"}
        match == IF version # 0 THEN active \cap {version} ELSE active
    IN  IF match = {} THEN 0
        ELSE CHOOSE v \in match : \A w \in match : w <= v

\* the cached tuple for a row: the text of a row is told by its target and
\* version
CachedValue(target, v) ==
    [status |-> "found", text |-> <<target[1], target[2], v>>, version |-> v]

CacheContains_IgnoreExpiry(c, key, now) ==
    \E i \in DOMAIN c : c[i].key = key

\* TTLCache.__contains__: the key is there and not expired
CacheContains(c, key, now) ==
    \E i \in DOMAIN c : c[i].key = key /\ now < c[i].expires

CacheIndex(c, key) == CHOOSE i \in DOMAIN c : c[i].key = key

Without(c, key) == SelectSeq(c, LAMBDA en : en.key # key)

\* TTLCache.__getitem__ on a key that is contained: the value; the entry
\* becomes the most recently used
CacheValue(c, key) == c[CacheIndex(c, key)].value

CacheTouch(c, key) == Append(Without(c, key), c[CacheIndex(c, key)])

\* TTLCache.expire
Expire(c, now) == SelectSeq(c, LAMBDA en : now < en.expires)

CacheSet_KeepOld(c, key, value, now) ==
    IF \E i \in DOMAIN c : c[i].key = key
    THEN Append(Without(c, key),
                [key |-> key, value |-> c[CacheIndex(c, key)].value,
                 expires |-> now + prompt_cache_ttl_seconds])
    ELSE Append(c, [key |-> key, value |-> value,
                    expires |-> now + prompt_cache_ttl_seconds])

CacheSet_NoEviction(c, key, value, now) ==
    Append(Without(Expire(c, now), key),
           [key |-> key, value |-> value,
            expires |-> now + prompt_cache_ttl_seconds])

\* TTLCache.__setitem__: expired entries go, then the least recently used one
\* if the cache is full and the key is new; the entry expires ttl from now
CacheSet(c, key, value, now) ==
    LET live == Expire(c, now)
        has  == \E i \in DOMAIN live : live[i].key = key
        room == IF ~has /\ Len(live) >= maxsize THEN Tail(live) ELSE live
    IN  Append(Without(room, key),
               [key |-> key, value |-> value,
                expires |-> now + prompt_cache_ttl_seconds])

\* what a miss stores: lines 85-96
StoreAfterQuery_Skip(c, key, target, row, now) == c

StoreAfterQuery(c, key, target, row, now) ==
    IF row # 0 THEN CacheSet(c, key, CachedValue(target, row), now) ELSE c

FetchOn_SwallowError(c, target, version, rows, fails, now) ==
    LET key == CacheKey(target, version)
    IN  IF CacheContains(c, key, now)
        THEN [cache |-> CacheTouch(c, key), store_called |-> FALSE,
              result |-> CacheValue(c, key)]
        ELSE IF fails
        THEN [cache |-> c, store_called |-> TRUE, result |-> NoValue]
        ELSE LET row == QueryStore(rows, version)
             IN  [cache |-> StoreAfterQuery(c, key, target, row, now),
                  store_called |-> TRUE,
                  result |-> IF row = 0 THEN NoValue
                             ELSE CachedValue(target, row)]

\* one call get_*_prompt(identifier, version) against cache c: the cache
\* after it, whether the store was queried, and the result ("raised" when the
\* store failed)
FetchOn(c, target, version, rows, fails, now) ==
    LET key == CacheKey(target, version)
    IN  IF CacheContains(c, key, now)
        THEN [cache |-> CacheTouch(c, key), store_called |-> FALSE,
              result |-> CacheValue(c, key)]
        ELSE IF fails
        THEN [cache |-> c, store_called |-> TRUE, result |-> Raised]
        ELSE LET row == QueryStore(rows, version)
             IN  [cache |-> StoreAfterQuery(c, key, target, row, now),
                  store_called |-> TRUE,
                  result |-> IF row = 0 THEN NoValue
                             ELSE CachedValue(target, row)]

\* a request calls get_*_prompt(identifier, version); noted per key: the last
\* fetch that queried the store, and whether the cache was cleared since
Fetch ==
    \E r \in Requests, fails \in BOOLEAN :
        LET key == CacheKey(r[1], r[2])
            out == FetchOn(cache, r[1], r[2], store[r[1]], fails, clock)
        IN  /\ cache' = out.cache
            /\ last_op' = [op |-> "fetch", key |-> key,
                           store_called |-> out.store_called,
                           result |-> out.result]
            /\ since' = IF out.store_called
                        THEN [since EXCEPT ![key] =
                                 [some |-> TRUE, t |-> clock,
                                  result |-> out.result, cleared |-> FALSE]]
                        ELSE since
            /\ UNCHANGED <<store, clock>>
            /\ UNCHANGED <<streamVars, callVars>>

ClearCache_KeepEntries ==
    /\ cache' = cache
    /\ since' = [k \in RequestKeys |->
                    [since[k] EXCEPT !.cleared = TRUE]]
    /\ last_op' = [op |-> "clear", key |-> <<>>,
                   store_called |-> FALSE, result |-> NoValue]
    /\ UNCHANGED <<store, clock>>
    /\ UNCHANGED <<streamVars, callVars>>

\* PromptService.clear_cache
ClearCache ==
    /\ cache' = <<>>
    /\ since' = [k \in RequestKeys |->
                    [since[k] EXCEPT !.cleared = TRUE]]
    /\ last_op' = [op |-> "clear", key |-> <<>>,
                   store_called |-> FALSE, result |-> NoValue]
    /\ UNCHANGED <<store, clock>>
    /\ UNCHANGED <<streamVars, callVars>>

\* time passes
CacheTick ==
    /\ \E d \in TimeSteps :
          /\ clock + d <= MaxTicks * d
          /\ clock' = clock + d
    /\ UNCHANGED <<store, cache, since, last_op>>
    /\ UNCHANGED <<pc, deltas, events, accumulated_text, delimiter_sent,
                   last_ping, current_time, llm_requests, compose_failure,
                   upstream_error, validated_text>>
    /\ UNCHANGED callVars

StreamIdle ==
    /\ pc = "idle"
    /\ deltas = <<>>
    /\ events = <<>>
    /\ accumulated_text = <<>>
    /\ delimiter_sent = FALSE
    /\ last_ping = 0
    /\ current_time = 0
    /\ llm_requests = 0
    /\ compose_failure = "none"
    /\ upstream_error = <<>>
    /\ validated_text = <<"unset">>

InitCache ==
    /\ clock = 0
    /\ \E b \in RowStates, m \in ModeRowStates :
          store = [t \in Targets |-> IF t = BaseTarget THEN b ELSE m]
    /\ cache = <<>>
    /\ since = [k \in RequestKeys |-> NoFetch]
    /\ last_op = [op |-> "none", key |-> <<>>, store_called |-> FALSE,
                  result |-> NoValue]
    /\ StreamIdle
    /\ call = <<>>
    /\ ret = <<>>
    /\ response = <<>>

NextCache ==
    \/ Fetch
    \/ ClearCache
    \/ CacheTick

SpecCache == InitCache /\ [][NextCache]_vars

\* the fetch that queried the store for key k last, and the time its entry
\* expires
InTTL(k) ==
    /\ since[k].some
    /\ ~since[k].cleared
    /\ clock < since[k].t + prompt_cache_ttl_seconds

\* this step is a fetch of key k
FetchStep(k) ==
    /\ clock' = clock
    /\ last_op'.op = "fetch"
    /\ last_op'.key = k

\* C5 as stated: a fetch of a key within the TTL of an earlier fetch of it that
\* queried the store, with no clear_cache() in between, does not query the store,
\* whatever the earlier fetch returned.
C5_Original ==
    [][\A k \in RequestKeys :
          InTTL(k) /\ since[k].result.status # "raised" /\ FetchStep(k)
             => ~last_op'.store_called]_vars

\* C5: a fetch of a key within the TTL of an earlier fetch of it that queried
\* the store and returned a prompt, with no clear_cache() in between, does not
\* query the store and returns what the earlier fetch returned, whatever other
\* keys were fetched in between; a fetch at or after the expiry queries the
\* store again.
C5_SecondFetchWithinTTLHitsCache ==
    [][\A k \in RequestKeys :
          /\ InTTL(k) /\ since[k].result.status = "found" /\ FetchStep(k)
                => /\ ~last_op'.store_called
                   /\ last_op'.result = since[k].result
          /\ (/\ since[k].some
              /\ clock >= since[k].t + prompt_cache_ttl_seconds
              /\ FetchStep(k))
                => last_op'.store_called]_vars

\* a hit on a key whose entry was stored earlier, another key having queried
\* the store in between
C5_Witness ==
    /\ last_op.op = "fetch"
    /\ ~last_op.store_called
    /\ \E k \in RequestKeys :
          /\ last_op.key = k
          /\ since[k].some /\ since[k].t < clock
          /\ \E o \in RequestKeys \ {k} :
                /\ since[o].some
                /\ since[o].t > since[k].t

-----------------------------------------------------------------------------
(* Prompt composition: PromptService.compose_system_prompt and            *)
(* _compose_with_authority. A text is a sequence of pieces; a heading is   *)
(* one piece, and so is the text between two headings or line ends         *)

MaxFragmentLen == 2

NL == "\n"

\* the headings of the sections (the hyphen stands for the dash of the source)
H_SYSTEM_ROLE == "SYSTEM ROLE:"
H_AUTHORITY == "AUTHORITY RULES:"
H_TASK == "## TASK DEFINITION"
H_SCOPE == "## PROJECT SCOPE - "
H_AGENT == "## TARGET AI AGENT - "
H_CONTRACT == "## OUTPUT CONTRACT"
H_FORMAT == "## RESPONSE FORMAT"
H_CURRENT == "## CURRENT SPEC (for iteration)"
H_USER == "## USER IDEA (UNTRUSTED INPUT)"

\* VALID_SPEC_MODES, and the agents a request may name ("" for None)
VALID_SPEC_MODES == {"mvp", "production-ready"}

AgentIds == {"", "v0"}

\* str.upper on the spec modes
Upper(mode) ==
    CASE mode = "mvp" -> "MVP"
      [] mode = "production-ready" -> "PRODUCTION-READY"
      [] OTHER -> mode

\* the texts a prompt row may hold: pieces of plain text and of the headings
\* the composer writes
FragmentPieces == {"x", H_CONTRACT, H_FORMAT}

RECURSIVE TextsUpTo(_)
TextsUpTo(n) ==
    IF n = 0 THEN {<<>>}
    ELSE LET shorter == TextsUpTo(n - 1)
         IN  shorter \cup {Append(t, p) : t \in shorter, p \in FragmentPieces}

FragmentTexts == TextsUpTo(MaxFragmentLen)

\* what a get_*_prompt call gives the composer
FragmentResults ==
    {[status |-> "found", text |-> t] : t \in FragmentTexts}
        \cup {[status |-> "absent", text |-> <<>>],
              [status |-> "error", text |-> <<>>]}

\* the current_spec argument: none (or empty), a spec, and one that holds a
\* heading of the composer
CurrentSpecs == {<<>>, <<"spec">>, <<H_FORMAT>>}

\* the user_prompt argument: none (or empty), an idea, and one that holds a
\* heading of the composer
UserPrompts == {<<>>, <<"idea">>, <<H_CURRENT>>}

\* "\n".join(sections)
RECURSIVE JoinSections(_)
JoinSections(sections) ==
    IF sections = <<>> THEN <<>>
    ELSE IF Len(sections) = 1 THEN sections[1]
    ELSE sections[1] \o <<NL>> \o JoinSections(Tail(sections))

\* _compose_with_authority: an absent agent_id, user_prompt or current_spec is
\* the empty one
ComposeWithAuthority_ContractFirst(base_prompt, spec_mode, mode_instructions, agent_id, agent_instructions, user_prompt, current_spec) ==
    JoinSections(
        <<<<H_SYSTEM_ROLE, NL, "role">>,
          <<NL, H_AUTHORITY, NL, "rules">>,
          <<NL, H_CONTRACT, NL, "contract">>,
          <<NL, H_TASK, NL>> \o base_prompt,
          <<NL, H_SCOPE, Upper(spec_mode), NL>> \o mode_instructions,
          <<NL, H_FORMAT, NL, "format">>>>)

ComposeWithAuthority_AgentAlways(base_prompt, spec_mode, mode_instructions, agent_id, agent_instructions, user_prompt, current_spec) ==
    JoinSections(
        <<<<H_SYSTEM_ROLE, NL, "role">>,
          <<NL, H_AUTHORITY, NL, "rules">>,
          <<NL, H_TASK, NL>> \o base_prompt,
          <<NL, H_SCOPE, Upper(spec_mode), NL>> \o mode_instructions>>
        \o (IF agent_id # ""
            THEN <<<<NL, H_AGENT, agent_id, NL>> \o agent_instructions>>
            ELSE <<>>)
        \o <<<<NL, H_CONTRACT, NL, "contract">>,
             <<NL, H_FORMAT, NL, "format">>>>
        \o (IF current_spec # <<>>
            THEN <<<<NL, H_CURRENT, NL>> \o current_spec>>
            ELSE <<>>)
        \o (IF user_prompt # <<>>
            THEN <<<<NL, H_USER, NL, "untrusted", NL, NL>> \o user_prompt>>
            ELSE <<>>))

ComposeWithAuthority(base_prompt, spec_mode, mode_instructions, agent_id, agent_instructions, user_prompt, current_spec) ==
    JoinSections(
        <<<<H_SYSTEM_ROLE, NL, "role">>,
          <<NL, H_AUTHORITY, NL, "rules">>,
          <<NL, H_TASK, NL>> \o base_prompt,
          <<NL, H_SCOPE, Upper(spec_mode), NL>> \o mode_instructions>>
        \o (IF agent_id # "" /\ agent_instructions # <<>>
            THEN <<<<NL, H_AGENT, agent_id, NL>> \o agent_instructions>>
            ELSE <<>>)
        \o <<<<NL, H_CONTRACT, NL, "contract">>,
             <<NL, H_FORMAT, NL, "format">>>>
        \o (IF current_spec # <<>>
            THEN <<<<NL, H_CURRENT, NL>> \o current_spec>>
            ELSE <<>>)
        \o (IF user_prompt # <<>>
            THEN <<<<NL, H_USER, NL, "untrusted", NL, NL>> \o user_prompt>>
            ELSE <<>>))

\* compose_system_prompt(base_slug, spec_mode, agent_id, user_prompt,
\* current_spec) given what the three fetches give
\* the get_*_prompt calls compose_system_prompt makes, in their order: lines
\* 219, 225 and 233-234
ComposeFetches(c) ==
    IF c.base.status # "found" THEN <<"base">>
    ELSE IF c.mode.status # "found" \/ c.agent_id = "" THEN <<"base", "mode">>
    ELSE <<"base", "mode", "agent">>

\* the message of the ValueError of lines 221 and 227
ComposeError(c) ==
    IF c.base.status = "absent" THEN <<"Base prompt not found: ", c.base_slug>>
    ELSE IF c.base.status = "found" /\ c.mode.status = "absent"
    THEN <<"Spec mode not found: ", c.spec_mode>>
    ELSE <<>>

ComposeSystemPrompt(c) ==
    LET status == ComposeStatus(c.base.status, c.mode.status,
                                c.agent_id # "", c.agent.status)
    IN  IF status # "ok"
        THEN [status |-> status, text |-> <<>>, fetched |-> ComposeFetches(c),
              error |-> IF status = "ValueError" THEN ComposeError(c) ELSE <<>>]
        ELSE [status |-> "ok",
              text |-> ComposeWithAuthority(
                           c.base.text, c.spec_mode, c.mode.text, c.agent_id,
                           IF c.agent_id # "" /\ c.agent.status = "found"
                           THEN c.agent.text ELSE <<>>,
                           c.user_prompt, c.current_spec),
              fetched |-> ComposeFetches(c), error |-> <<>>]

\* the index of the first occurrence of a heading in a text, 0 if there is none
Find(text, heading) ==
    IF \E i \in DOMAIN text : text[i] = heading
    THEN CHOOSE i \in DOMAIN text :
            /\ text[i] = heading
            /\ \A j \in 1..(i - 1) : text[j] # heading
    ELSE 0

Compose ==
    /\ call # <<>>
    /\ call.fn = "compose_system_prompt"
    /\ ret = <<>>
    /\ ret' = ComposeSystemPrompt(call)
    /\ UNCHANGED <<call, response, streamVars, cacheVars>>

CacheIdle ==
    /\ clock = 0
    /\ store = [id \in {} |-> <<>>]
    /\ cache = <<>>
    /\ since = <<>>
    /\ last_op = <<>>

InitCompose ==
    /\ \E m \in VALID_SPEC_MODES, a \in AgentIds,
          b \in FragmentResults, mi \in FragmentResults,
          ai \in {r \in FragmentResults : Len(r.text) <= 1},
          cs \in CurrentSpecs, up \in UserPrompts :
            call = [fn |-> "compose_system_prompt",
                    base_slug |-> "spec-generation", spec_mode |-> m,
                    agent_id |-> a, current_spec |-> cs, user_prompt |-> up,
                    base |-> b, mode |-> mi, agent |-> ai]
    /\ ret = <<>>
    /\ response = <<>>
    /\ StreamIdle
    /\ CacheIdle

NextCompose == Compose

SpecCompose == InitCompose /\ [][NextCompose]_vars

Composed == ret # <<>> /\ ret.status = "ok"

InOrder(text) ==
    /\ 0 < Find(text, H_AUTHORITY)
    /\ Find(text, H_AUTHORITY) < Find(text, H_TASK)
    /\ Find(text, H_TASK) < Find(text, H_SCOPE)
    /\ Find(text, H_SCOPE) < Find(text, H_CONTRACT)
    /\ Find(text, H_CONTRACT) < Find(text, H_FORMAT)

HasHeading(text, headings) == \E i \in DOMAIN text : text[i] \in headings

\* C6 as stated: for all fragment texts, the first occurrences of the headings
\* Authority Rules, Task Definition, Project Scope, Output Contract and
\* Response Format in the composed text are in this order.
C6_Original == Composed => InOrder(ret.text)

\* C6: for all valid spec modes and all fragment texts that contain neither the
\* Output Contract nor the Response Format heading, the first occurrences of
\* the headings Authority Rules, Task Definition, Project Scope, Output
\* Contract and Response Format in the composed text are in this order.
C6_BlocksInOrder ==
    (/\ Composed
     /\ ~HasHeading(call.base.text \o call.mode.text \o call.agent.text,
                    {H_CONTRACT, H_FORMAT}))
        => InOrder(ret.text)

\* a prompt composed of three non-empty fragments, agent section included
C6_Witness ==
    /\ Composed
    /\ call.agent_id # ""
    /\ call.base.text # <<>> /\ call.mode.text # <<>> /\ call.agent.text # <<>>
    /\ ~HasHeading(call.base.text \o call.mode.text \o call.agent.text,
                   {H_CONTRACT, H_FORMAT})
    /\ Find(ret.text, H_AGENT) > Find(ret.text, H_SCOPE)

-----------------------------------------------------------------------------
(* Question generation: OpenAIService.generate_questions and the          *)
(* /questions endpoint                                                     *)

\* questions and options a provider response may hold, and its largest index
MaxQuestions == 6

MaxOptions == 6

MaxIndex == 7

\* questions[:5], options[:5], and the fewest questions of a response
QuestionLimit == 5

OptionLimit == 5

MinQuestions == 3

Min(a, b) == IF a <= b THEN a ELSE b

\* seq[:n]
Take(seq, n) == SubSeq(seq, 1, Min(Len(seq), n))

\* n options; an option is told by its place in the provided list
OptionList(n) == [i \in 1..n |-> i]

\* a question of the provider's JSON: each field may be missing (has_* false)
ProvidedQuestion(hid, id, hq, text, ho, options, hi, index, hr, required) ==
    [has_id |-> hid, id |-> id, has_question |-> hq, question |-> text,
     has_options |-> ho, options |-> options,
     has_index |-> hi, recommendedIndex |-> index,
     has_required |-> hr, required |-> required]

\* a complete question, the j-th of the response
PlainQuestion(j) ==
    ProvidedQuestion(TRUE, <<"gen", j>>, TRUE, <<"text", j>>, TRUE,
                     OptionList(3), TRUE, 0, TRUE, TRUE)

\* the fields of a question with any of them missing, any number of options
\* and any index: has_id, has_question, has_options, the number of options,
\* has_index, the index, has_required, required
QuestionFields ==
    {g \in BOOLEAN \X BOOLEAN \X BOOLEAN \X (0..MaxOptions)
              \X BOOLEAN \X (-1..MaxIndex) \X BOOLEAN \X BOOLEAN :
        /\ g[3] \/ g[4] = 0
        /\ g[5] \/ g[6] = 0
        /\ g[7] \/ g[8]}

PlainFields == <<TRUE, TRUE, TRUE, 3, TRUE, 0, TRUE, TRUE>>

QuestionOf(f) ==
    ProvidedQuestion(f[1], <<"platform", 0>>, f[2], <<"text", 0>>,
                     f[3], OptionList(f[4]), f[5], f[6], f[7], f[8])

\* a list of n questions: complete ones, but for the p-th, which has fields f
QuestionList(n, p, f) ==
    [j \in 1..n |-> IF j = p THEN QuestionOf(f) ELSE PlainQuestion(j)]

\* what the provider does with the request: the call fails, the content is
\* not JSON, or it is a JSON object with or without the key "questions"
ProviderKinds == {"fails", "unparseable", "parsed"}

ProviderResponse(kind, has_questions, questions) ==
    [kind |-> kind, has_questions |-> has_questions, questions |-> questions]

\* q.get("options", [])
ProvidedOptions(q) == IF q.has_options THEN q.options ELSE <<>>

\* lines 183-192, for the k-th question (k = i + 1)
NormalizeQuestion_ClampToReturned(q, k) ==
    [id |-> IF q.has_id THEN q.id ELSE <<"q", k>>,
     question |-> IF q.has_question THEN q.question ELSE <<>>,
     options |-> Take(ProvidedOptions(q), OptionLimit),
     recommendedIndex |-> Min(IF q.has_index THEN q.recommendedIndex ELSE 0,
                              Len(Take(ProvidedOptions(q), OptionLimit)) - 1),
     required |-> IF q.has_required THEN q.required ELSE TRUE]

NormalizeQuestion(q, k) ==
    [id |-> IF q.has_id THEN q.id ELSE <<"q", k>>,
     question |-> IF q.has_question THEN q.question ELSE <<>>,
     options |-> Take(ProvidedOptions(q), OptionLimit),
     recommendedIndex |-> Min(IF q.has_index THEN q.recommendedIndex ELSE 0,
                              Len(ProvidedOptions(q)) - 1),
     required |-> IF q.has_required THEN q.required ELSE TRUE]

GenerateQuestionsResult_RequireQuestionsKey(resp) ==
    IF resp.kind = "fails"
    THEN [status |-> "raised", error |-> "Exception", questions |-> <<>>]
    ELSE IF resp.kind = "unparseable"
    THEN [status |-> "raised", error |-> "ValueError", questions |-> <<>>]
    ELSE IF ~resp.has_questions
    THEN [status |-> "raised", error |-> "Exception", questions |-> <<>>]
    ELSE LET first == Take(resp.questions, QuestionLimit)
         IN  [status |-> "ok", error |-> "none",
              questions |-> [k \in 1..Len(first) |->
                                NormalizeQuestion(first[k], k)]]

\* OpenAIService.generate_questions on the provider's response
GenerateQuestionsResult(resp) ==
    IF resp.kind = "fails"
    THEN [status |-> "raised", error |-> "Exception", questions |-> <<>>]
    ELSE IF resp.kind = "unparseable"
    THEN [status |-> "raised", error |-> "ValueError", questions |-> <<>>]
    ELSE LET questions == IF resp.has_questions THEN resp.questions ELSE <<>>
             first == Take(questions, QuestionLimit)
         IN  [status |-> "ok", error |-> "none",
              questions |-> [k \in 1..Len(first) |->
                                NormalizeQuestion(first[k], k)]]

\* _get_fallback_question_list(spec_mode)
FallbackQuestion(name, index) ==
    [id |-> <<name, 0>>, question |-> <<"fallback", name>>,
     options |-> OptionList(4), recommendedIndex |-> index, required |-> TRUE]

FallbackQuestionList(spec_mode) ==
    <<FallbackQuestion("platform", IF spec_mode = "mvp" THEN 0 ELSE 3),
      FallbackQuestion("auth", IF spec_mode = "mvp" THEN 0 ELSE 1),
      FallbackQuestion("database", IF spec_mode = "mvp" THEN 0 ELSE 3)>>

\* the Question model accepts 2 to 5 options and an index of at least 0
ValidQuestion(q) ==
    /\ Len(q.options) >= 2
    /\ Len(q.options) <= 5
    /\ q.recommendedIndex >= 0

\* _ensure_minimum_questions: existing are the ids before any is appended
RECURSIVE AppendFallbacks(_, _, _)
AppendFallbacks(questions, fallbacks, existing) ==
    IF fallbacks = <<>> \/ Len(questions) >= MinQuestions THEN questions
    ELSE IF Head(fallbacks).id \notin existing
    THEN AppendFallbacks(Append(questions, Head(fallbacks)), Tail(fallbacks),
                         existing)
    ELSE AppendFallbacks(questions, Tail(fallbacks), existing)

EnsureMinimumQuestions_AppendAll(questions, spec_mode) ==
    questions \o FallbackQuestionList(spec_mode)

EnsureMinimumQuestions(questions, spec_mode) ==
    AppendFallbacks(questions, FallbackQuestionList(spec_mode),
                    {questions[k].id : k \in DOMAIN questions})

\* the request fails: the exception leaves the endpoint
RequestFails == [status |-> "failed", questions |-> <<>>]

\* _get_fallback_questions(spec_mode)
FallbackResponse(spec_mode) ==
    [status |-> "fallback", questions |-> FallbackQuestionList(spec_mode)]

\* the endpoint: except ValueError re-raises, except Exception falls back
HandleError_FallbackAlways(error, spec_mode) == FallbackResponse(spec_mode)

HandleError(error, spec_mode) ==
    IF error = "ValueError" THEN RequestFails ELSE FallbackResponse(spec_mode)

\* the endpoint after generate_questions returned result: lines 61-87
RespondWith(result, spec_mode) ==
    IF \E k \in DOMAIN result.questions : ~ValidQuestion(result.questions[k])
    THEN HandleError("ValueError", spec_mode)
    ELSE LET questions ==
                 IF Len(result.questions) < MinQuestions
                 THEN EnsureMinimumQuestions(result.questions, spec_mode)
                 ELSE result.questions
             kept == Take(questions, 5)
         IN  IF Len(kept) < MinQuestions THEN HandleError("ValueError", spec_mode)
             ELSE [status |-> "ok", questions |-> kept]

\* the endpoint up to the provider call: compose_questions_prompt raises
\* ValueError for a prompt not found and the store's exception otherwise
QuestionsComposeFails ==
    /\ call # <<>>
    /\ call.fn = "questions"
    /\ call.compose # "ok"
    /\ response = <<>>
    /\ response' = HandleError(call.compose, call.spec_mode)
    /\ UNCHANGED <<call, ret, streamVars, cacheVars>>

\* await openai_service.generate_questions(...)
GenerateQuestions ==
    /\ call # <<>>
    /\ call.fn = "questions"
    /\ call.compose = "ok"
    /\ ret = <<>>
    /\ ret' = GenerateQuestionsResult(call.provider)
    /\ UNCHANGED <<call, response, streamVars, cacheVars>>

\* the endpoint after the call
QuestionsRespond ==
    /\ call # <<>>
    /\ call.fn = "questions"
    /\ ret # <<>>
    /\ response = <<>>
    /\ response' = IF ret.status = "raised"
                   THEN HandleError(ret.error, call.spec_mode)
                   ELSE RespondWith(ret, call.spec_mode)
    /\ UNCHANGED <<call, ret, streamVars, cacheVars>>

InitQuestions ==
    /\ \E m \in VALID_SPEC_MODES :
          \/ \E c \in {"ValueError", "Exception"} :
                call = [fn |-> "questions", spec_mode |-> m, compose |-> c,
                        provider |-> ProviderResponse("fails", FALSE, <<>>)]
          \/ \E kind \in ProviderKinds, hk \in BOOLEAN,
                n \in 0..MaxQuestions, p \in 0..MaxQuestions,
                f \in QuestionFields :
                /\ kind # "parsed" => ~hk
                /\ ~hk => n = 0
                /\ p <= n
                /\ p = 0 => f = PlainFields
                /\ call = [fn |-> "questions", spec_mode |-> m,
                           compose |-> "ok",
                           provider |-> ProviderResponse(
                                            kind, hk, QuestionList(n, p, f))]
    /\ ret = <<>>
    /\ response = <<>>
    /\ StreamIdle
    /\ CacheIdle

NextQuestions ==
    \/ QuestionsComposeFails
    \/ GenerateQuestions
    \/ QuestionsRespond

SpecQuestions == InitQuestions /\ [][NextQuestions]_vars

\* C9: when question generation fails, because the provider call fails or
\* because the provider returns unparseable JSON, the endpoint returns the
\* fallback set of 3 questions instead of failing the request.
C9_FallbackOnGenerationFailure ==
    (/\ ret # <<>>
     /\ ret.status = "raised"
     /\ response # <<>>)
        => /\ response.status = "fallback"
           /\ Len(response.questions) = 3

\* what the code does give: the fallback set when the provider call fails
FallbackOnProviderFailure ==
    (/\ ret # <<>>
     /\ ret.status = "raised"
     /\ ret.error = "Exception"
     /\ response # <<>>)
        => /\ response.status = "fallback"
           /\ Len(response.questions) = 3

\* C10: generate_questions returns at most the first 5 questions in their
\* order, each with at most its first 5 options; each recommendedIndex is
\* min(provided index, number of provided options - 1), the index being 0 when
\* missing; a question without id gets <<"q", k>> at place k (counted from 1); a
\* missing required is true.
C10_Normalization ==
    (ret # <<>> /\ call.fn = "questions" /\ ret.status = "ok")
        => LET given == IF call.provider.has_questions
                        THEN call.provider.questions ELSE <<>>
               out == ret.questions
           IN  /\ Len(out) = Min(Len(given), 5)
               /\ \A k \in DOMAIN out :
                     LET q == given[k]
                         opts == IF q.has_options THEN q.options ELSE <<>>
                     IN  /\ out[k].question = (IF q.has_question
                                               THEN q.question ELSE <<>>)
                         /\ out[k].options = SubSeq(opts, 1, Min(Len(opts), 5))
                         /\ q.has_index =>
                               out[k].recommendedIndex =
                                   Min(q.recommendedIndex, Len(opts) - 1)
                         /\ ~q.has_index =>
                               out[k].recommendedIndex = Min(0, Len(opts) - 1)
                         /\ out[k].id = (IF q.has_id THEN q.id ELSE <<"q", k>>)
                         /\ out[k].required = (IF q.has_required
                                               THEN q.required ELSE TRUE)

\* six questions were provided; the third has index 7, 3 options, no id and no
\* required, and comes back third with index 2, id <<"q", 3>> and required
C10_Witness ==
    /\ ret # <<>>
    /\ call.fn = "questions"
    /\ ret.status = "ok"
    /\ Len(call.provider.questions) = 6
    /\ Len(ret.questions) = 5
    /\ LET q == call.provider.questions[3]
       IN  /\ q.has_index /\ q.recommendedIndex = 7
           /\ q.has_options /\ Len(q.options) = 3
           /\ ~q.has_id /\ ~q.has_required
    /\ ret.questions[3].recommendedIndex = 2
    /\ ret.questions[3].id = <<"q", 3>>
    /\ ret.questions[3].required

\* the ids of a list of questions
QuestionIds(questions) == {questions[k].id : k \in DOMAIN questions}

\* C11: a response of the questions endpoint, generated or fallback, holds 3
\* to 5 questions: at least 3 generated questions are returned as they are (at
\* most 5); fewer than 3 are followed by fallback questions, in the order of the
\* fallback list, whose ids no generated question has, up to 3 questions.
C11_ThreeToFiveQuestions ==
    (response # <<>> /\ response.status # "failed")
        => LET out == response.questions
           IN  /\ Len(out) >= 3
               /\ Len(out) <= 5
               /\ (response.status = "ok") =>
                     LET gen == ret.questions
                         n == Len(gen)
                         fb == FallbackQuestionList(call.spec_mode)
                     IN  /\ SubSeq(out, 1, n) = gen
                         /\ n >= 3 => out = gen
                         /\ n < 3 =>
                              /\ Len(out) = 3
                              /\ \A k \in (n + 1)..3 :
                                    /\ out[k].id \notin QuestionIds(gen)
                                    /\ \E j \in DOMAIN fb : out[k] = fb[j]
                              /\ \A k \in (n + 1)..3, l \in (n + 1)..3 :
                                    k < l =>
                                       \E i \in DOMAIN fb, j \in DOMAIN fb :
                                          i < j /\ out[k] = fb[i] /\ out[l] = fb[j]

\* two questions were generated, one with the id of the first fallback
\* question; the second fallback question is appended
C11_Witness ==
    /\ response # <<>>
    /\ response.status = "ok"
    /\ Len(ret.questions) = 2
    /\ <<"platform", 0>> \in QuestionIds(ret.questions)
    /\ Len(response.questions) = 3
    /\ response.questions[3].id = <<"auth", 0>>

ComposeReturned == ret # <<>> /\ call.fn = "compose_system_prompt"

\* C12: compose_system_prompt fetches base, spec mode and agent in this order;
\* an absent base fragment fails it with the error naming the base prompt and
\* the spec mode is not fetched; an absent spec-mode fragment fails it with the
\* error naming the spec mode; an agent id whose fragment is absent gives a
\* composed prompt without the agent section.
C12_FetchOrderAndMissingFragments ==
    ComposeReturned
        => /\ \E n \in 1..3 : ret.fetched = SubSeq(<<"base", "mode", "agent">>, 1, n)
           /\ call.base.status = "absent" =>
                 /\ ret.status = "ValueError"
                 /\ ret.error = <<"Base prompt not found: ", call.base_slug>>
                 /\ ret.fetched = <<"base">>
           /\ (call.base.status = "found" /\ call.mode.status = "absent") =>
                 /\ ret.status = "ValueError"
                 /\ ret.error = <<"Spec mode not found: ", call.spec_mode>>
                 /\ ret.fetched = <<"base", "mode">>
           /\ (/\ call.base.status = "found"
               /\ call.mode.status = "found"
               /\ call.agent_id # ""
               /\ call.agent.status = "absent") =>
                 /\ ret.status = "ok"
                 /\ Find(ret.text, H_AGENT) = 0
                 /\ Find(ret.text, H_CONTRACT) > 0
                 /\ ret.fetched = <<"base", "mode", "agent">>

\* an agent id was given, its fragment is absent, and the prompt was composed
C12_Witness ==
    /\ ComposeReturned
    /\ call.agent_id # ""
    /\ call.agent.status = "absent"
    /\ call.base.text # <<>>
    /\ ret.status = "ok"
    /\ ret.fetched = <<"base", "mode", "agent">>

\* C13: an invocation of stream_chat_completion opens exactly one upstream
\* request, and a chat request at most one: none when the composition failed,
\* and no second one after a failed validation or an error.
C13_OneUpstreamRequest ==
    /\ llm_requests <= 1
    /\ (pc # "start" /\ compose_failure = "none") => llm_requests = 1
    /\ compose_failure # "none" => llm_requests = 0

\* the stream ended, the validated text has no delimiter, and the generator
\* has returned after done
C13_Witness ==
    /\ pc = "closed"
    /\ validated_text # <<"unset">>
    /\ ~ContainsDelimiter(validated_text)
    /\ Len(deltas) > 0
    /\ events[Len(events)].event = "done"
    /\ llm_requests = 1

-----------------------------------------------------------------------------
(* Output validation: OpenAIService._validate_output. A text is a sequence *)
(* of pieces, as for the composition; the delimiter, a section header and  *)
(* a piece of markup are one piece each                                    *)

DELIMITER_PIECE == "---SPEC_START---"

REQUIRED_SECTIONS ==
    <<"### 1. Project Overview", "### 2. Technical Stack",
      "### 3. Core Features & User Flows", "### 4. Data Models & Architecture",
      "### 5. UI/UX Specifications", "### 6. Security & Performance",
      "### 7. Implementation Roadmap", "### 8. AI Agent Instructions">>

html_patterns ==
    <<"<div[^>]*>", "<span[^>]*>", "<p[^>]*>", "<button[^>]*>", "className=",
      "onClick=">>

\* the patterns re.search finds in the pieces of markup a text may hold
\* (re.IGNORECASE)
MatchTable ==
    {<<"<div[^>]*>", "<div>">>, <<"<span[^>]*>", "<SPAN id=a>">>,
     <<"<button[^>]*>", "<button>">>, <<"onClick=", "onclick=">>}

\* the pieces a text is made of, in the order they stand in it
TextPieces ==
    <<"intro", DELIMITER_PIECE>> \o REQUIRED_SECTIONS
        \o <<"<div>", "<SPAN id=a>", "<button>", "onclick=">>

\* piece in text
InText(piece, text) == \E i \in DOMAIN text : text[i] = piece

\* re.search(pattern, text, re.IGNORECASE)
Search(pattern, text) ==
    \E i \in DOMAIN text : <<pattern, text[i]>> \in MatchTable

\* lines 217-219
DelimiterIssues(text) ==
    IF ~InText(DELIMITER_PIECE, text)
    THEN <<<<"Missing delimiter", DELIMITER_PIECE>>>>
    ELSE <<>>

\* lines 223-226: the loop over REQUIRED_SECTIONS from the k-th on
RECURSIVE MissingSections(_, _)
MissingSections(text, k) ==
    IF k > Len(REQUIRED_SECTIONS) THEN <<>>
    ELSE (IF ~InText(REQUIRED_SECTIONS[k], text)
          THEN <<<<"Missing section: ", REQUIRED_SECTIONS[k]>>>>
          ELSE <<>>) \o MissingSections(text, k + 1)

SectionIssues_AnyHeader(text) ==
    IF \E k \in DOMAIN REQUIRED_SECTIONS : InText(REQUIRED_SECTIONS[k], text)
    THEN MissingSections(text, 1)
    ELSE <<>>

SectionIssues_FirstHeaderOnly(text) ==
    IF InText(REQUIRED_SECTIONS[1], text)
    THEN MissingSections(text, 1)
    ELSE <<>>

SectionIssues(text) ==
    IF InText(REQUIRED_SECTIONS[1], text) \/ InText(REQUIRED_SECTIONS[2], text)
    THEN MissingSections(text, 1)
    ELSE <<>>

RECURSIVE MarkupIssues_NoBreak(_, _)
MarkupIssues_NoBreak(text, k) ==
    IF k > Len(html_patterns) THEN <<>>
    ELSE (IF Search(html_patterns[k], text)
          THEN <<<<"HTML/JSX detected: ", html_patterns[k]>>>>
          ELSE <<>>) \o MarkupIssues_NoBreak(text, k + 1)

\* lines 229-240: the first pattern found ends the loop
RECURSIVE MarkupIssues(_, _)
MarkupIssues(text, k) ==
    IF k > Len(html_patterns) THEN <<>>
    ELSE IF Search(html_patterns[k], text)
    THEN <<<<"HTML/JSX detected: ", html_patterns[k]>>>>
    ELSE MarkupIssues(text, k + 1)

\* _validate_output(text)
ValidateOutput_ShortCircuit(text) ==
    LET first == DelimiterIssues(text)
        issues == IF first # <<>> THEN first
                  ELSE SectionIssues(text) \o MarkupIssues(text, 1)
    IN  [valid |-> Len(issues) = 0, issues |-> issues]

ValidateOutput(text) ==
    LET issues == DelimiterIssues(text) \o SectionIssues(text)
                      \o MarkupIssues(text, 1)
    IN  [valid |-> Len(issues) = 0, issues |-> issues]

InitialIssues_Kept(previous) == previous

\* line 215: the list of issues is a local, made empty at every call,
\* whatever an earlier call found
InitialIssues(previous) == <<>>

\* one call of _validate_output(text) on a service whose earlier calls found
\* the issues previous
ValidateCall(previous, text) ==
    LET issues == InitialIssues(previous) \o ValidateOutput(text).issues
    IN  [valid |-> Len(issues) = 0, issues |-> issues]

Validate ==
    /\ call # <<>>
    /\ call.fn = "_validate_output"
    /\ ret = <<>>
    /\ ret' = ValidateCall(<<>>, call.text)
    /\ UNCHANGED <<call, response, streamVars, cacheVars>>

\* _validate_output is called again on the same text
ValidateAgain ==
    /\ call # <<>>
    /\ call.fn = "_validate_output"
    /\ ret # <<>>
    /\ response = <<>>
    /\ response' = ValidateCall(ret.issues, call.text)
    /\ UNCHANGED <<call, ret, streamVars, cacheVars>>

InitValidate ==
    /\ \E chosen \in SUBSET {TextPieces[i] : i \in DOMAIN TextPieces} :
          call = [fn |-> "_validate_output",
                  text |-> SelectSeq(TextPieces, LAMBDA p : p \in chosen)]
    /\ ret = <<>>
    /\ response = <<>>
    /\ StreamIdle
    /\ CacheIdle

NextValidate == Validate \/ ValidateAgain

SpecValidate == InitValidate /\ [][NextValidate]_vars

Validated == ret # <<>> /\ call.fn = "_validate_output"

\* the text has the delimiter and every required section header but the a-th
SevenOfEight(text, a) ==
    /\ InText(DELIMITER_PIECE, text)
    /\ ~InText(REQUIRED_SECTIONS[a], text)
    /\ \A k \in DOMAIN REQUIRED_SECTIONS :
          k # a => InText(REQUIRED_SECTIONS[k], text)

NoMarkup(text) == \A k \in DOMAIN html_patterns : ~Search(html_patterns[k], text)

\* C14 as stated: for a text with the delimiter and exactly seven of the eight
\* required section headers, the result is invalid with exactly one issue,
\* which names the absent header.
C14_Original ==
    Validated =>
        \A a \in DOMAIN REQUIRED_SECTIONS :
            SevenOfEight(call.text, a) =>
                /\ ~ret.valid
                /\ ret.issues = <<<<"Missing section: ", REQUIRED_SECTIONS[a]>>>>

\* C14: for a text with the delimiter, exactly seven of the eight required
\* section headers and no markup that a pattern finds, the result is invalid
\* with exactly one issue, which names the absent header.
C14_OneIssueNamesAbsentHeader ==
    Validated =>
        \A a \in DOMAIN REQUIRED_SECTIONS :
            (SevenOfEight(call.text, a) /\ NoMarkup(call.text)) =>
                /\ ~ret.valid
                /\ ret.issues = <<<<"Missing section: ", REQUIRED_SECTIONS[a]>>>>

\* the text lacks the fourth header only
C14_Witness ==
    /\ Validated
    /\ SevenOfEight(call.text, 4)
    /\ NoMarkup(call.text)
    /\ ret.issues = <<<<"Missing section: ", "### 4. Data Models & Architecture">>>>

InIssues(issue, issues) == \E i \in DOMAIN issues : issues[i] = issue

\* the place of an issue in the order of the checks: the delimiter, the
\* sections in their order, the markup
IssueRank(issue) ==
    IF issue[1] = "Missing delimiter" THEN 0
    ELSE IF issue[1] = "Missing section: "
    THEN CHOOSE k \in DOMAIN REQUIRED_SECTIONS : REQUIRED_SECTIONS[k] = issue[2]
    ELSE Len(REQUIRED_SECTIONS) + 1

\* C15: each check of the validation contributes its issues whatever the other
\* checks find: the delimiter issue is there iff the delimiter is absent; the
\* issue of a section iff the text has one of the first two headers and lacks
\* this one; the markup issue iff a pattern is found, naming the first pattern
\* found; the issues stand in this order; valid iff there is no issue.
C15_IndependentChecks ==
    Validated =>
        LET text == call.text
            issues == ret.issues
            fullSpec == InText(REQUIRED_SECTIONS[1], text)
                            \/ InText(REQUIRED_SECTIONS[2], text)
        IN  /\ InIssues(<<"Missing delimiter", DELIMITER_PIECE>>, issues)
                  <=> ~InText(DELIMITER_PIECE, text)
            /\ \A k \in DOMAIN REQUIRED_SECTIONS :
                  InIssues(<<"Missing section: ", REQUIRED_SECTIONS[k]>>, issues)
                      <=> (fullSpec /\ ~InText(REQUIRED_SECTIONS[k], text))
            /\ \A k \in DOMAIN html_patterns :
                  InIssues(<<"HTML/JSX detected: ", html_patterns[k]>>, issues)
                      <=> /\ Search(html_patterns[k], text)
                          /\ \A j \in 1..(k - 1) : ~Search(html_patterns[j], text)
            /\ \A i \in DOMAIN issues, j \in DOMAIN issues :
                  i < j => IssueRank(issues[i]) < IssueRank(issues[j])
            /\ ret.valid <=> issues = <<>>

\* a text for which the three checks all report: no delimiter, a full spec
\* lacking sections, markup
C15_Witness ==
    /\ Validated
    /\ ~InText(DELIMITER_PIECE, call.text)
    /\ InText(REQUIRED_SECTIONS[2], call.text)
    /\ ~InText(REQUIRED_SECTIONS[1], call.text)
    /\ ~InText(REQUIRED_SECTIONS[8], call.text)
    /\ Search("<span[^>]*>", call.text) /\ Search("onClick=", call.text)
    /\ Len(ret.issues) >= 4
    /\ ret.issues[1] = <<"Missing delimiter", DELIMITER_PIECE>>
    /\ ret.issues[Len(ret.issues)][1] = "HTML/JSX detected: "
    /\ ~ret.valid

-----------------------------------------------------------------------------
(* One fetch against given rows: get_base_prompt, get_spec_mode_prompt and *)
(* get_agent_prompt with or without a version                              *)

AgentTarget == <<"agent", "v0">>

GetPrompt ==
    /\ call # <<>>
    /\ call.fn = "get_prompt"
    /\ ret = <<>>
    /\ ret' = FetchOn(<<>>, call.target, call.version, call.rows, call.fails, 0)
    /\ UNCHANGED <<call, response, streamVars, cacheVars>>

InitFetch ==
    /\ \E target \in {BaseTarget, ModeTarget, AgentTarget},
          version \in 0..MaxVersion, rows \in RowStates, fails \in BOOLEAN :
            call = [fn |-> "get_prompt", target |-> target,
                    version |-> version, rows |-> rows, fails |-> fails]
    /\ ret = <<>>
    /\ response = <<>>
    /\ StreamIdle
    /\ CacheIdle

NextFetch == GetPrompt

SpecFetch == InitFetch /\ [][NextFetch]_vars

Fetched == ret # <<>> /\ call.fn = "get_prompt" /\ ~call.fails

ActiveVersions(rows) == {v \in DOMAIN rows : rows[v] = "active"}

\* C16: a fetch without a version returns the row with the highest version
\* among the active rows of the identifier; a fetch with a version returns that
\* row if it is active; otherwise, and so for an inactive row, the result is
\* not-found.
C16_LatestActiveVersion ==
    Fetched =>
        LET active == ActiveVersions(call.rows)
            result == ret.result
        IN  /\ (call.version = 0 /\ active # {}) =>
                  /\ result.status = "found"
                  /\ result.version \in active
                  /\ \A v \in active : v <= result.version
            /\ (call.version = 0 /\ active = {}) => result = NoValue
            /\ (call.version # 0 /\ call.version \in active) =>
                  /\ result.status = "found"
                  /\ result.version = call.version
            /\ (call.version # 0 /\ call.version \notin active) => result = NoValue
            /\ result.status = "found" =>
                  result = CachedValue(call.target, result.version)

\* the row with the highest version is inactive, and the fetch without a
\* version returns the active row below it
C16_Witness ==
    /\ Fetched
    /\ call.version = 0
    /\ call.rows[MaxVersion] = "inactive"
    /\ call.rows[1] = "active"
    /\ ret.result.status = "found"
    /\ ret.result.version < MaxVersion

-----------------------------------------------------------------------------
(* Compositions over the cache while the rows of the store change          *)

\* what get_*_prompt returns for the rows as they are now
StoreValue(target, rows) ==
    IF QueryStore(rows, 0) = 0 THEN NoValue
    ELSE CachedValue(target, QueryStore(rows, 0))

\* the keys whose entry is in the cache but expired
StaleKeys(c, now) == {c[i].key : i \in {j \in DOMAIN c : now >= c[j].expires}}

NotFetched == [cache |-> <<>>, store_called |-> FALSE, result |-> NoValue]

\* compose_system_prompt("spec-generation", "mvp") at time now: the fetch of
\* the base prompt, then, if it was found, of the spec mode, then the
\* composition
ComposeOver(c, rows, failsBase, failsMode, now) ==
    LET b == FetchOn(c, BaseTarget, 0, rows[BaseTarget], failsBase, now)
        bFound == b.result.status = "found"
        m == IF bFound
             THEN FetchOn(b.cache, ModeTarget, 0, rows[ModeTarget], failsMode, now)
             ELSE NotFetched
        status == ComposeStatus(IF bFound THEN "found"
                                ELSE IF b.result = Raised THEN "error"
                                ELSE "absent",
                                IF m.result.status = "found" THEN "found"
                                ELSE IF m.result = Raised THEN "error"
                                ELSE "absent",
                                FALSE, "absent")
    IN  [cache |-> IF bFound THEN m.cache ELSE b.cache,
         status |-> status,
         base |-> b.result, base_called |-> b.store_called,
         mode |-> m.result, mode_called |-> m.store_called,
         mode_fetched |-> bFound,
         text |-> IF status = "ok"
                  THEN ComposeWithAuthority(b.result.text, "mvp", m.result.text,
                                            "", <<>>, <<>>, <<>>)
                  ELSE <<>>]

\* a request composes its system prompt; the store client is synchronous, so
\* no other request runs between its fetches
ServeCompose ==
    \E failsBase \in BOOLEAN, failsMode \in BOOLEAN :
        LET out == ComposeOver(cache, store, failsBase, failsMode, clock)
            bk == CacheKey(BaseTarget, 0)
            mk == CacheKey(ModeTarget, 0)
            Noted(k, called, result) ==
                IF called
                THEN [some |-> TRUE, t |-> clock, result |-> result,
                      cleared |-> FALSE]
                ELSE since[k]
        IN  /\ cache' = out.cache
            /\ last_op' = [op |-> "compose", t |-> clock, status |-> out.status,
                           base |-> out.base, base_called |-> out.base_called,
                           mode |-> out.mode, mode_called |-> out.mode_called,
                           mode_fetched |-> out.mode_fetched,
                           stale |-> StaleKeys(cache, clock),
                           text |-> out.text]
            /\ since' = [k \in RequestKeys |->
                            IF k = bk THEN Noted(k, out.base_called, out.base)
                            ELSE Noted(k, out.mode_called, out.mode)]
            /\ UNCHANGED <<store, clock>>
            /\ UNCHANGED <<streamVars, callVars>>

\* the rows of the base prompt change in the store: a version is published,
\* deactivated or deleted
StoreWrite ==
    /\ \E v \in Versions, st \in {"none", "inactive", "active"} :
          /\ store[BaseTarget][v] # st
          /\ store' = [store EXCEPT ![BaseTarget][v] = st]
    /\ UNCHANGED <<cache, since, last_op>>
    /\ UNCHANGED <<pc, deltas, events, accumulated_text, delimiter_sent,
                   last_ping, current_time, llm_requests, compose_failure,
                   upstream_error, validated_text, clock>>
    /\ UNCHANGED callVars

\* clear_cache() between compositions
ServeClear ==
    /\ cache' = <<>>
    /\ since' = [k \in RequestKeys |-> [since[k] EXCEPT !.cleared = TRUE]]
    /\ last_op' = [op |-> "clear"]
    /\ UNCHANGED <<store, clock>>
    /\ UNCHANGED <<streamVars, callVars>>

InitService ==
    /\ clock = 0
    /\ store = [t \in Targets |-> [v \in Versions |->
                   IF v = 1 \/ t = ModeTarget THEN "active" ELSE "none"]]
    /\ cache = <<>>
    /\ since = [k \in RequestKeys |-> NoFetch]
    /\ last_op = [op |-> "none"]
    /\ StreamIdle
    /\ call = <<>>
    /\ ret = <<>>
    /\ response = <<>>

NextService ==
    \/ ServeCompose
    \/ StoreWrite
    \/ ServeClear
    \/ CacheTick

SpecService == InitService /\ [][NextService]_vars

\* this step is a composition
ComposeStep ==
    /\ clock' = clock
    /\ store' = store
    /\ last_op'.op = "compose"

\* the fragment a composition used under key k was fetched from the store less
\* than the TTL before it
FreshFragment(k, used, sinceAfter, now) ==
    /\ sinceAfter[k].some
    /\ sinceAfter[k].result = used
    /\ sinceAfter[k].t <= now
    /\ now - sinceAfter[k].t < prompt_cache_ttl_seconds

\* C17: a composed system prompt is built, at each composition anew, from
\* fragment values fetched from the store less than the TTL before; nothing
\* but fragments is in the cache; and a composition that finds the entry of a
\* fragment expired queries the store and uses the latest active version the
\* store has then.
C17_ComposedFromFreshFragments ==
    [][ComposeStep =>
          LET bk == CacheKey(BaseTarget, 0)
              mk == CacheKey(ModeTarget, 0)
              op == last_op'
          IN  /\ op.status = "ok" =>
                    /\ FreshFragment(bk, op.base, since', clock)
                    /\ FreshFragment(mk, op.mode, since', clock)
                    /\ op.text = ComposeWithAuthority(
                                     since'[bk].result.text, "mvp",
                                     since'[mk].result.text, "", <<>>, <<>>, <<>>)
              /\ \A i \in DOMAIN cache' : cache'[i].key \in RequestKeys
              /\ bk \in op.stale =>
                    /\ op.base_called
                    /\ op.base \in {StoreValue(BaseTarget, store[BaseTarget]), Raised}
              /\ (mk \in op.stale /\ op.mode_fetched) =>
                    /\ op.mode_called
                    /\ op.mode \in {StoreValue(ModeTarget, store[ModeTarget]), Raised}
      ]_vars

\* a composition found the cached base prompt expired and used the version
\* published in the meantime
C17_Witness ==
    /\ last_op.op = "compose"
    /\ last_op.status = "ok"
    /\ CacheKey(BaseTarget, 0) \in last_op.stale
    /\ last_op.base_called
    /\ last_op.base.version = MaxVersion
    /\ last_op.t >= prompt_cache_ttl_seconds

\* the entries a lookup can see
LiveEntries(c, now) == {i \in DOMAIN c : now < c[i].expires}

\* C18: with requests that fetch the same and different keys in any order,
\* clear_cache() and expiries between them, every entry of the cache holds,
\* under a key the callers use, a value the store returned for this key, and an
\* entry that a lookup can see holds the value returned to the last fetch of
\* the key that queried the store; no key has two entries.
C18_CacheHoldsStoreValues ==
    /\ \A i \in DOMAIN cache :
          /\ cache[i].key \in RequestKeys
          /\ cache[i].value.status = "found"
          /\ \E tg \in Targets, v \in Versions :
                /\ cache[i].key = CacheKey(tg, 0)
                /\ cache[i].value = CachedValue(tg, v)
          /\ \A j \in DOMAIN cache : cache[j].key = cache[i].key => j = i
    /\ \A i \in LiveEntries(cache, clock) :
          /\ since[cache[i].key].some
          /\ cache[i].value = since[cache[i].key].result
          /\ cache[i].expires = since[cache[i].key].t + prompt_cache_ttl_seconds

\* two entries a lookup can see, the base prompt's written after its first
\* entry expired and after the spec mode's, with the version published since
C18_Witness ==
    /\ Len(cache) = 2
    /\ LiveEntries(cache, clock) = DOMAIN cache
    /\ since[CacheKey(BaseTarget, 0)].t > since[CacheKey(ModeTarget, 0)].t
    /\ since[CacheKey(BaseTarget, 0)].t >= prompt_cache_ttl_seconds
    /\ last_op.op = "compose"
    /\ ~last_op.mode_called
    /\ last_op.base.version = MaxVersion
    /\ CacheKey(BaseTarget, 0) \in last_op.stale

\* C19: when the caller disconnects, after whatever event, the cancellation
\* emits no event, and from then on no provider delta is consumed, no event is
\* emitted (no done and no error either) and no upstream request is made.
C19_NothingAfterDisconnect ==
    [][(pc = "cancelled" \/ pc' = "cancelled")
          => /\ pc' = "cancelled"
             /\ events' = events
             /\ deltas' = deltas
             /\ llm_requests' = llm_requests]_vars

\* the caller disconnected after a token, with the provider's stream still open
C19_Witness ==
    /\ pc = "cancelled"
    /\ Len(events) >= 2
    /\ events[Len(events)].event = "token"
    /\ \A i \in DOMAIN events : events[i].event \notin {"done", "error"}

\* ------------------------------------------------------------------------
\* PromptService.compose_questions_prompt: the system prompt of the question
\* generation. Texts are sequences of pieces, as in the spec composition.

REC_ROBUST == "For each question, set recommendedIndex to the option that is more robust, scalable, and enterprise-grade."

REC_SIMPLER == "For each question, set recommendedIndex to the option that is simpler and faster to implement."

TARGET_AGENT == "Target AI Agent: "

CONSIDER_AGENT == "Consider this agent's strengths when formulating questions:"

\* the mode values a caller of the function can pass: the two valid ones and
\* one that is neither
QuestionModes == VALID_SPEC_MODES \cup {"enterprise"}

\* fragment texts as the store can hold them, the composer's own lines among
\* them
QuestionFragmentTexts ==
    {<<>>} \cup {<<p>> : p \in {"x", REC_ROBUST, REC_SIMPLER, TARGET_AGENT}}

QuestionFragmentResults ==
    {[status |-> "found", text |-> t] : t \in QuestionFragmentTexts}
        \cup {[status |-> "absent", text |-> <<>>],
              [status |-> "error", text |-> <<>>]}

RecommendationInstruction_ValidModesOnly(spec_mode) ==
    IF spec_mode = "production-ready" THEN REC_ROBUST
    ELSE IF spec_mode = "mvp" THEN REC_SIMPLER
    ELSE ""

RecommendationInstruction(spec_mode) ==
    IF spec_mode = "production-ready" THEN REC_ROBUST ELSE REC_SIMPLER

AgentContext(agent_id, agent) ==
    IF agent_id # "" /\ agent.status = "found"
    THEN <<NL, NL, TARGET_AGENT, agent_id, NL, CONSIDER_AGENT, NL>> \o agent.text
    ELSE <<>>

ComposeQuestionsPrompt(c) ==
    LET status == ComposeStatus(c.base.status, c.mode.status,
                                c.agent_id # "", c.agent.status)
    IN  IF status # "ok"
        THEN [status |-> status, text |-> <<>>]
        ELSE [status |-> "ok",
              text |-> c.base.text \o <<NL, NL>> \o c.mode.text \o <<NL, NL>>
                           \o <<RecommendationInstruction(c.spec_mode), NL>>
                           \o AgentContext(c.agent_id, c.agent)]

ComposeQuestions ==
    /\ call # <<>>
    /\ call.fn = "compose_questions_prompt"
    /\ ret = <<>>
    /\ ret' = ComposeQuestionsPrompt(call)
    /\ UNCHANGED <<call, response, streamVars, cacheVars>>

InitQuestionsPrompt ==
    /\ \E m \in QuestionModes, a \in AgentIds,
          b \in QuestionFragmentResults, mi \in QuestionFragmentResults,
          ai \in QuestionFragmentResults :
            call = [fn |-> "compose_questions_prompt", spec_mode |-> m,
                    agent_id |-> a, base |-> b, mode |-> mi, agent |-> ai]
    /\ ret = <<>>
    /\ response = <<>>
    /\ StreamIdle
    /\ CacheIdle

NextQuestionsPrompt == ComposeQuestions

SpecQuestionsPrompt == InitQuestionsPrompt /\ [][NextQuestionsPrompt]_vars

QuestionsPromptComposed ==
    /\ ret # <<>>
    /\ call.fn = "compose_questions_prompt"
    /\ ret.status = "ok"

Occurrences(text, piece) == Cardinality({i \in DOMAIN text : text[i] = piece})

Infix(sub, text) ==
    \E i \in 0..(Len(text) - Len(sub)) : SubSeq(text, i + 1, i + Len(sub)) = sub

OtherInstruction(spec_mode) ==
    IF spec_mode = "production-ready" THEN REC_SIMPLER ELSE REC_ROBUST

ChosenInstruction(spec_mode) ==
    IF spec_mode = "production-ready" THEN REC_ROBUST ELSE REC_SIMPLER

AgentFound == call.agent_id # "" /\ call.agent.status = "found"

\* the texts the composer used contain none of the composer's own lines
PlainFragments ==
    \A p \in {REC_ROBUST, REC_SIMPLER, TARGET_AGENT} :
        Occurrences(call.base.text \o call.mode.text
                        \o (IF AgentFound THEN call.agent.text ELSE <<>>), p) = 0

\* C20 as stated: for all fragment texts, the composed questions prompt
\* contains the base text, the mode text and the instruction of the mode
\* (robust for "production-ready", simpler for every other mode) and not the
\* other instruction, and the agent context only if an agent fragment is found.
C20_Original ==
    QuestionsPromptComposed =>
        /\ Infix(call.base.text, ret.text)
        /\ Infix(call.mode.text, ret.text)
        /\ Occurrences(ret.text, ChosenInstruction(call.spec_mode)) >= 1
        /\ Occurrences(ret.text, OtherInstruction(call.spec_mode)) = 0
        /\ Occurrences(ret.text, TARGET_AGENT) > 0 => AgentFound

\* C20: for fragment texts that contain neither recommendation instruction
\* nor the agent context line, the composed questions prompt contains the base
\* text, the mode text, exactly one occurrence of the instruction of the mode
\* (robust for "production-ready", simpler for "mvp" and every other value)
\* and none of the other instruction, and the agent context exactly when an
\* agent id was given and its fragment was found.
C20_OneRecommendationByMode ==
    (QuestionsPromptComposed /\ PlainFragments) =>
        /\ Infix(call.base.text, ret.text)
        /\ Infix(call.mode.text, ret.text)
        /\ Occurrences(ret.text, ChosenInstruction(call.spec_mode)) = 1
        /\ Occurrences(ret.text, OtherInstruction(call.spec_mode)) = 0
        /\ Occurrences(ret.text, TARGET_AGENT) = (IF AgentFound THEN 1 ELSE 0)
        /\ AgentFound => Infix(call.agent.text, ret.text)

\* a prompt composed for a mode that is neither "mvp" nor "production-ready",
\* with an agent fragment found
C20_Witness ==
    /\ QuestionsPromptComposed
    /\ PlainFragments
    /\ call.spec_mode = "enterprise"
    /\ call.base.text = <<"x">>
    /\ call.mode.text = <<"x">>
    /\ AgentFound
    /\ call.agent.text = <<"x">>

-----------------------------------------------------------------------------
(* Further properties of the prompt cache *)

\* C21: when clear_cache() returns the cache is empty, and the first fetch of
\* any key after it queries the store, also for a key that was cached and
\* within its TTL, whatever time passed and whatever other keys were fetched
\* in between.
C21_ClearEvictsAll ==
    [][/\ last_op'.op = "clear" => cache' = <<>>
       /\ \A k \in RequestKeys :
             (since[k].cleared /\ FetchStep(k)) => last_op'.store_called]_vars

\* clear_cache() has returned while both keys were cached and within their
\* TTL
C21_Witness ==
    /\ last_op.op = "clear"
    /\ cache = <<>>
    /\ \A k \in RequestKeys :
          /\ since[k].some
          /\ since[k].cleared
          /\ since[k].result.status = "found"
          /\ clock < since[k].t + prompt_cache_ttl_seconds

-----------------------------------------------------------------------------
(* Further properties of the output validation *)

ValidatedTwice ==
    /\ call # <<>>
    /\ call.fn = "_validate_output"
    /\ ret # <<>>
    /\ response # <<>>

RECURSIVE IssuesOfKind(_, _)
IssuesOfKind(issues, kind) ==
    IF issues = <<>> THEN <<>>
    ELSE (IF Head(issues)[1] = kind THEN <<Head(issues)[2]>> ELSE <<>>)
             \o IssuesOfKind(Tail(issues), kind)

AbsentHeaders(text) == SelectSeq(REQUIRED_SECTIONS, LAMBDA s : ~InText(s, text))

\* C28: the result has missing-section issues only for a text with
\* '### 1. Project Overview' or '### 2. Technical Stack': a text with neither
\* has none, whichever of the headers 3 to 8 it has or lacks; a text with one
\* of the two has exactly one issue per absent required header, in header
\* order.
C28_SectionCheckHeuristic ==
    Validated =>
        IssuesOfKind(ret.issues, "Missing section: ")
            = IF InText("### 1. Project Overview", call.text)
                    \/ InText("### 2. Technical Stack", call.text)
              THEN AbsentHeaders(call.text)
              ELSE <<>>

\* a text without the first two headers, with the third and without the fourth
C28_Witness ==
    /\ Validated
    /\ ~InText(REQUIRED_SECTIONS[1], call.text)
    /\ ~InText(REQUIRED_SECTIONS[2], call.text)
    /\ InText(REQUIRED_SECTIONS[3], call.text)
    /\ ~InText(REQUIRED_SECTIONS[4], call.text)
    /\ IssuesOfKind(ret.issues, "Missing section: ") = <<>>

\* the patterns that re.search finds in the text
MatchingPatterns(text) ==
    {k \in DOMAIN html_patterns : Search(html_patterns[k], text)}

\* C29: the result has at most one delimiter issue, at most seven
\* missing-section issues and at most one HTML/JSX issue, however many of the
\* patterns occur in the text: one iff some pattern matches, upper or lower
\* case, and it names the first pattern of the list that matches.
C29_IssueCounts ==
    Validated =>
        LET markup == IssuesOfKind(ret.issues, "HTML/JSX detected: ")
            found == MatchingPatterns(call.text)
        IN  /\ Len(IssuesOfKind(ret.issues, "Missing delimiter")) <= 1
            /\ Len(IssuesOfKind(ret.issues, "Missing section: ")) <= 7
            /\ Len(markup) <= 1
            /\ Len(markup) = 1 <=> found # {}
            /\ found # {} =>
                  markup = <<html_patterns[CHOOSE k \in found :
                                              \A j \in found : k <= j]>>
            /\ Len(ret.issues) = Len(IssuesOfKind(ret.issues, "Missing delimiter"))
                                   + Len(IssuesOfKind(ret.issues, "Missing section: "))
                                   + Len(markup)

\* several patterns occur in the text, the first of them in upper case; the
\* delimiter and seven sections are missing
C29_Witness ==
    /\ Validated
    /\ Cardinality(MatchingPatterns(call.text)) >= 3
    /\ ~InText("<div>", call.text)
    /\ InText("<SPAN id=a>", call.text)
    /\ Len(ret.issues) = 9
    /\ ret.issues[9] = <<"HTML/JSX detected: ", "<span[^>]*>">>

-----------------------------------------------------------------------------
(* Further properties of the stream engine *)

\* the data of the token events before position i, joined
RECURSIVE TokensBefore(_)
TokensBefore(i) ==
    IF i <= 1 THEN <<>>
    ELSE TokensBefore(i - 1)
             \o (IF events[i - 1].event = "token" THEN events[i - 1].data ELSE <<>>)

IsPrefix(s, t) == Len(s) <= Len(t) /\ SubSeq(t, 1, Len(s)) = s

\* the text before the first occurrence of the delimiter
PreText(text) == SplitAtDelimiter(text)[1]

\* C23 as stated: when the delimiter event is emitted, the text before the
\* first occurrence of the marker in the concatenation of the deltas has been
\* emitted by the token events before it (read generously: the tokens emitted
\* so far begin with that text), also when it arrived in the delta of the
\* marker.
C23_PreMarkerTextEmitted ==
    \A i \in EventIdx({"delimiter"}) :
        IsPrefix(PreText(ConcatDeltas(1, events[i].k)), TokensBefore(i))

\* what the code does give: the tokens before the delimiter event are the
\* deltas received before the delta of the detection
TokensBeforeDelimiterArePriorDeltas ==
    \A i \in EventIdx({"delimiter"}) :
        TokensBefore(i) = ConcatDeltas(1, events[i].k - 1)

StreamEnded == pc \in {"y_done", "closed"} /\ validated_text # <<"unset">>

\* C24 as stated: when the upstream stream ends normally, the text handed to
\* the validator is the concatenation of all content deltas of the stream.
C24_ValidatedTextIsAllContent == StreamEnded => validated_text = AllContent

\* what the code does give: the concatenation of the deltas if no delimiter
\* was detected, and otherwise the marker and what followed it
ValidatedTextFromDelimiter ==
    StreamEnded =>
        validated_text = IF ContainsDelimiter(AllContent)
                         THEN SPEC_DELIMITER \o PostText(AllContent)
                         ELSE AllContent

MaxOf(S) == CHOOSE i \in S : \A j \in S : j <= i

\* the time of the last event of one of the kinds emitted before the k-th
\* delta arrived; the start of the stream if there is none
LastEventTime(kinds, k) ==
    LET prior == {j \in EventIdx(kinds) : events[j].k < k}
    IN  IF prior = {} THEN 0 ELSE events[MaxOf(prior)].t

PingsAt(k) == {i \in EventIdx({"ping"}) : events[i].k = k}

\* C25 as stated: a ping is emitted before a delta is processed if and only
\* if more than the ping interval has elapsed since the last emitted event of
\* any kind (since the start of the stream if there is none), so none while
\* a token was emitted within the last interval; at most one ping per delta.
C25_PingIffSilentSinceLastEvent ==
    \A k \in DOMAIN deltas :
        /\ Cardinality(PingsAt(k)) <= 1
        /\ PingsAt(k) # {}
              <=> deltas[k].t - LastEventTime({"token", "delimiter", "ping"}, k)
                      > ping_interval

\* what the code does give: at most one ping per delta, emitted if and only
\* if the ping interval or more has elapsed since the last ping (since the
\* start of the stream if there is none), whatever tokens were emitted
PingIffIntervalSinceLastPing ==
    \A k \in DOMAIN deltas :
        /\ Cardinality(PingsAt(k)) <= 1
        /\ PingsAt(k) # {}
              <=> deltas[k].t - LastEventTime({"ping"}, k) >= ping_interval

\* the token and delimiter events emitted for the k-th delta, kind and data,
\* in the order of their emission
RECURSIVE EmittedFor(_, _)
EmittedFor(k, i) ==
    IF i > Len(events) THEN <<>>
    ELSE (IF events[i].k = k /\ events[i].event \in {"token", "delimiter"}
          THEN <<<<events[i].event, events[i].data>>>>
          ELSE <<>>) \o EmittedFor(k, i + 1)

\* the k-th delta is the one at which the marker is first in the concatenation
DetectedAt(k) ==
    /\ ContainsDelimiter(ConcatDeltas(1, k))
    /\ ~ContainsDelimiter(ConcatDeltas(1, k - 1))

\* what the rule of C26 prescribes for the k-th delta
PrescribedFor(k) ==
    IF deltas[k].content = <<>> THEN <<>>
    ELSE IF DetectedAt(k)
    THEN LET post == Lstrip(PostText(ConcatDeltas(1, k)))
         IN  <<<<"delimiter", SPEC_DELIMITER>>>>
                 \o (IF post # <<>> THEN <<<<"token", post>>>> ELSE <<>>)
    ELSE <<<<"token", deltas[k].content>>>>

\* C26: once a delta is processed, the events emitted for it (pings aside)
\* are: for the content delta at which the marker is first detected, the
\* delimiter event and then, if the text after the marker is not empty once
\* left-trimmed, one token carrying it left-trimmed, and no plain token; for
\* every other content delta, before or after the delimiter, exactly one
\* token carrying the delta verbatim; events are emitted in delta order.
C26_PerDeltaEmission ==
    /\ \A k \in DOMAIN deltas :
          (k < Len(deltas) \/ AllProcessed) => EmittedFor(k, 1) = PrescribedFor(k)
    /\ \A i \in DOMAIN events, j \in DOMAIN events :
          i < j => events[i].k <= events[j].k

\* three content deltas: text before the marker, the delta of the detection
\* with text after the marker, and a whitespace-only delta after it
C26_Witness ==
    /\ pc = "closed"
    /\ Len(deltas) = 3
    /\ deltas[1].content = Str_half1
    /\ deltas[2].content = Str_half2
    /\ deltas[3].content = Str_ws
    /\ EmittedFor(2, 1) = <<<<"delimiter", SPEC_DELIMITER>>, <<"token", <<"d">>>>>>
    /\ EmittedFor(3, 1) = <<<<"token", Str_ws>>>>

-----------------------------------------------------------------------------
(* Further properties of the prompt composition *)

SectionHeadings ==
    {H_TASK, H_SCOPE, H_AGENT, H_CONTRACT, H_FORMAT, H_CURRENT, H_USER}

AgentFragmentFound == call.agent_id # "" /\ call.agent.status = "found"

\* the texts given to the composer hold none of its headings
NoHeadingInInputs ==
    ~HasHeading(call.base.text \o call.mode.text
                    \o (IF AgentFragmentFound THEN call.agent.text ELSE <<>>)
                    \o call.current_spec \o call.user_prompt,
                SectionHeadings)

\* C27 as stated: for all inputs, the Target Agent heading is in the composed
\* text iff an agent id was given and its fragment was found, and then between
\* Project Scope and Output Contract; the Current Spec heading iff a current
\* spec was given, and then after Response Format; the User Idea heading iff
\* a user prompt was given, and then after Response Format and Current Spec.
C27_Original ==
    Composed =>
        LET at(h) == Find(ret.text, h)
        IN  /\ at(H_AGENT) > 0 <=> AgentFragmentFound
            /\ at(H_AGENT) > 0 =>
                  at(H_SCOPE) < at(H_AGENT) /\ at(H_AGENT) < at(H_CONTRACT)
            /\ at(H_CURRENT) > 0 <=> call.current_spec # <<>>
            /\ at(H_CURRENT) > 0 => at(H_FORMAT) < at(H_CURRENT)
            /\ at(H_USER) > 0 <=> call.user_prompt # <<>>
            /\ at(H_USER) > 0 =>
                  at(H_FORMAT) < at(H_USER) /\ at(H_CURRENT) < at(H_USER)

\* C27: for inputs that hold none of the composer's headings, the composed
\* text has the Target Agent section iff an agent id was given and its
\* fragment was found with instructions that are not empty, between Project
\* Scope and Output Contract; the Current Spec section iff a current spec,
\* not empty, was given, after Response Format; the User Idea section iff a
\* user prompt, not empty, was given, last and after Current Spec; and each
\* of these headings at most once.
C27_OptionalSections ==
    (Composed /\ NoHeadingInInputs) =>
        LET at(h) == Find(ret.text, h)
        IN  /\ at(H_AGENT) > 0 <=> (AgentFragmentFound /\ call.agent.text # <<>>)
            /\ at(H_AGENT) > 0 =>
                  at(H_SCOPE) < at(H_AGENT) /\ at(H_AGENT) < at(H_CONTRACT)
            /\ at(H_CURRENT) > 0 <=> call.current_spec # <<>>
            /\ at(H_CURRENT) > 0 => at(H_FORMAT) < at(H_CURRENT)
            /\ at(H_USER) > 0 <=> call.user_prompt # <<>>
            /\ at(H_USER) > 0 =>
                  \A h \in SectionHeadings \ {H_USER} : at(h) < at(H_USER)
            /\ \A h \in {H_AGENT, H_CURRENT, H_USER} : Occurrences(ret.text, h) <= 1

\* a prompt composed with the three optional sections
C27_Witness ==
    /\ Composed
    /\ NoHeadingInInputs
    /\ Find(ret.text, H_AGENT) > 0
    /\ Find(ret.text, H_CURRENT) > Find(ret.text, H_FORMAT)
    /\ Find(ret.text, H_USER) > Find(ret.text, H_CURRENT)
    /\ call.base.text # <<>>

-----------------------------------------------------------------------------
(* Further properties of the question generation *)

GenerateQuestionsReturned == ret # <<>> /\ call # <<>> /\ call.fn = "questions"

QuestionKeys == {"id", "question", "options", "recommendedIndex", "required"}

C31_IndexWithinReturnedOptions ==
    (GenerateQuestionsReturned /\ ret.status = "ok") =>
        \A k \in DOMAIN ret.questions :
            /\ 0 <= ret.questions[k].recommendedIndex
            /\ ret.questions[k].recommendedIndex < Len(ret.questions[k].options)

\* what the code does give: the index is at most the provided index (0 if
\* missing) and less than the number of provided options, which may exceed
\* the five returned
IndexWithinProvidedOptions ==
    (GenerateQuestionsReturned /\ ret.status = "ok") =>
        \A k \in DOMAIN ret.questions :
            LET q == call.provider.questions[k]
            IN  /\ ret.questions[k].recommendedIndex < Len(ProvidedOptions(q))
                /\ ret.questions[k].recommendedIndex
                      <= (IF q.has_index THEN q.recommendedIndex ELSE 0)

\* the target and the version argument of the request with key k
RequestOf(k) == CHOOSE r \in Requests : CacheKey(r[1], r[2]) = k

\* C32: a fetch that returns no fragment leaves the cache as it was, no entry
\* added or removed: the store's failure reaches the caller as the exception,
\* and not-found is returned only when the store has no active row for the
\* request; the next fetch of the key after either queries the store again.
C32_NoFragmentNoCacheChange ==
    [][\A k \in RequestKeys :
          FetchStep(k) =>
             /\ last_op'.result.status \in {"raised", "none"} =>
                   /\ cache' = cache
                   /\ last_op'.store_called
             /\ last_op'.result.status = "none" =>
                   QueryStore(store[RequestOf(k)[1]], RequestOf(k)[2]) = 0
             /\ (since[k].some /\ since[k].result.status \in {"raised", "none"})
                   => last_op'.store_called]_vars

\* the store failed on the fetch of a key whose expired entry is still in the
\* cache, next to a live entry of the other key
C32_Witness ==
    /\ last_op.op = "fetch"
    /\ last_op.result.status = "raised"
    /\ Len(cache) = 2
    /\ \E i \in DOMAIN cache :
          cache[i].key = last_op.key /\ cache[i].expires <= clock
    /\ \E i \in DOMAIN cache :
          cache[i].key # last_op.key /\ clock < cache[i].expires

-----------------------------------------------------------------------------
(* The prompt cache at its capacity: the service after fetches of many     *)
(* versions of an agent prompt, each found and cached                      *)

\* how many such entries the cache holds at the start: up to maxsize
FilledCounts == {maxsize - 2, maxsize - 1, maxsize}

\* the entry of the fetch get_agent_prompt("v0", i) made at time t
FilledEntry(i, t) ==
    [key |-> CacheKey(AgentTarget, i), value |-> CachedValue(AgentTarget, i),
     expires |-> t + prompt_cache_ttl_seconds]

\* n entries, least recently used first; the first old of them were stored
\* one time step before the start, the others at the start
FilledCache(n, old) ==
    [i \in 1..n |-> FilledEntry(i, IF i <= old THEN 0 - 150 ELSE 0)]

InitEviction ==
    /\ clock = 0
    /\ \E b \in ModeRowStates, m \in ModeRowStates :
          store = [t \in Targets |-> IF t = BaseTarget THEN b ELSE m]
    /\ \E n \in FilledCounts : \E old \in {0, 1, n} : cache = FilledCache(n, old)
    /\ since = [k \in RequestKeys |-> NoFetch]
    /\ last_op = [op |-> "none", key |-> <<>>, store_called |-> FALSE,
                  result |-> NoValue]
    /\ StreamIdle
    /\ call = <<>>
    /\ ret = <<>>
    /\ response = <<>>

NextEviction ==
    \/ Fetch
    \/ ClearCache
    \/ CacheTick

SpecEviction == InitEviction /\ [][NextEviction]_vars

HasLiveEntry(c, k, now) ==
    \E i \in DOMAIN c : c[i].key = k /\ now < c[i].expires

\* C33: the cache never holds more than maxsize entries; a fetch answered
\* from the cache returns the value of an entry that has not reached its
\* expiry; a fetch that found a row has stored it when it returns, also when
\* the cache was full of live entries, one of which is then gone.
C33_BoundedCacheNoStaleHit ==
    /\ [](Len(cache) <= maxsize)
    /\ [][\A k \in RequestKeys :
             FetchStep(k) =>
                /\ ~last_op'.store_called =>
                      \E i \in DOMAIN cache :
                         /\ cache[i].key = k
                         /\ clock < cache[i].expires
                         /\ cache[i].value = last_op'.result
                /\ (last_op'.store_called /\ last_op'.result.status = "found") =>
                      /\ HasLiveEntry(cache', k, clock)
                      /\ CacheValue(cache', k) = last_op'.result
                      /\ Len(Expire(cache, clock)) = maxsize =>
                            /\ Len(cache') = maxsize
                            /\ \E i \in DOMAIN cache :
                                  /\ clock < cache[i].expires
                                  /\ \A j \in DOMAIN cache' :
                                        cache'[j].key # cache[i].key]_vars

\* a fetch stored its row in a cache that held maxsize live entries: the
\* least recently used of them is gone, the others are still there
C33_Witness ==
    /\ last_op.op = "fetch"
    /\ last_op.store_called
    /\ last_op.result.status = "found"
    /\ Len(cache) = maxsize
    /\ cache[maxsize].key = last_op.key
    /\ \A i \in DOMAIN cache : clock < cache[i].expires
    /\ \A i \in 1..(maxsize - 1) : cache[i].key = CacheKey(AgentTarget, i + 1)

-----------------------------------------------------------------------------
(* The chat flow from the request body to the messages sent to the         *)
(* provider: chat.generate, _build_user_prompt and the start of            *)
(* stream_chat_completion. Two requests are handled against the same       *)
(* store; "" and <<>> stand for None as well as for the empty value        *)

\* the fields of a ChatRequest that carry the user's text
UntrustedFields ==
    [prompt : {"idea A", "idea B"},
     original_prompt : {"", "first idea"},
     structured_answers : {<<>>, <<[question_id |-> "platform", answer |-> "ios app"]>>},
     product_type : {"", "saas"},
     platform : {"", "mobile"}]

\* the other fields of a ChatRequest
TrustedFields ==
    [messages : {<<>>, <<[role |-> "assistant", content |-> <<"earlier reply">>]>>},
     current_spec : {<<>>, <<"### 1. Project Overview">>},
     spec_mode : VALID_SPEC_MODES,
     target_agent : AgentIds]

\* lines 106-111
Context(body) ==
    LET context_lines ==
            (IF body.product_type # ""
             THEN <<<<"Product Type: ", body.product_type>>>> ELSE <<>>)
            \o (IF body.platform # ""
                THEN <<<<"Platform: ", body.platform>>>> ELSE <<>>)
    IN  IF context_lines # <<>>
        THEN <<NL, "Context:", NL>> \o JoinSections(context_lines)
        ELSE <<>>

\* lines 115-118
AnswersText(answers) ==
    JoinSections([k \in DOMAIN answers |->
                     <<"- ", answers[k].question_id, ": ", answers[k].answer>>])

\* _build_user_prompt(body, is_initial)
BuildUserPrompt(body, is_initial) ==
    IF body.structured_answers # <<>> /\ body.original_prompt # ""
    THEN <<"The user has answered the clarifying questions", NL, NL,
           "Original Product Idea:", NL, body.original_prompt, NL, NL,
           "User's Answers:", NL>>
             \o AnswersText(body.structured_answers) \o Context(body)
             \o <<NL, NL, "Now generate the complete technical prompt">>
    ELSE IF is_initial
    THEN <<"Transform this product idea:">> \o Context(body)
             \o <<NL, NL, "Product Idea:", NL, body.prompt, NL, NL,
                  "Remember: Start by asking 3-5 clarifying questions.">>
    ELSE <<"User response: ", body.prompt, NL, NL,
           IF body.current_spec # <<>>
                 /\ InText("### 1. Project Overview", body.current_spec)
           THEN "Update the technical prompt based on this feedback."
           ELSE "The user has answered your questions.">>

SystemUserPrompt_Passed(user_prompt) == user_prompt

\* line 58: the user_prompt argument of compose_system_prompt is None
SystemUserPrompt(user_prompt) == <<>>

\* lines 44-60 of generate(): the composition of the system prompt
ChatSystemPrompt(body, frags) ==
    LET is_initial == body.messages = <<>>
    IN  ComposeSystemPrompt(
            [fn |-> "compose_system_prompt",
             base_slug |-> IF is_initial THEN "spec-generation"
                           ELSE "spec-generation-followup",
             spec_mode |-> body.spec_mode, agent_id |-> body.target_agent,
             user_prompt |-> SystemUserPrompt(BuildUserPrompt(body, is_initial)),
             current_spec |-> IF is_initial THEN <<>> ELSE body.current_spec,
             base |-> frags.base, mode |-> frags.mode, agent |-> frags.agent])

\* lines 65-77 of stream_chat_completion: the messages of the request to the
\* provider; none when the composition failed
ApiMessages(body, frags) ==
    LET composed == ChatSystemPrompt(body, frags)
    IN  IF composed.status # "ok"
        THEN [status |-> composed.status, messages |-> <<>>]
        ELSE [status |-> "ok",
              messages |->
                  <<[role |-> "system", content |-> composed.text]>>
                  \o [k \in DOMAIN body.messages |->
                         [role |-> body.messages[k].role,
                          content |-> body.messages[k].content]]
                  \o <<[role |-> "user",
                        content |-> BuildUserPrompt(body, body.messages = <<>>)]>>]

\* the two requests are handled up to the request to the provider
ChatBuild ==
    /\ call # <<>>
    /\ call.fn = "chat"
    /\ ret = <<>>
    /\ ret' = [first |-> ApiMessages(call.first, call.frags),
               second |-> ApiMessages(call.second, call.frags)]
    /\ UNCHANGED <<call, response, streamVars, cacheVars>>

Body(t, u) ==
    [prompt |-> u.prompt, original_prompt |-> u.original_prompt,
     structured_answers |-> u.structured_answers,
     product_type |-> u.product_type, platform |-> u.platform,
     messages |-> t.messages, current_spec |-> t.current_spec,
     spec_mode |-> t.spec_mode, target_agent |-> t.target_agent]

InitChat ==
    /\ \E t \in TrustedFields, u1 \in UntrustedFields, u2 \in UntrustedFields,
          b \in {[status |-> "found", text |-> <<"x">>],
                 [status |-> "absent", text |-> <<>>]} :
            call = [fn |-> "chat", first |-> Body(t, u1), second |-> Body(t, u2),
                    frags |-> [base |-> b,
                               mode |-> [status |-> "found", text |-> <<"x">>],
                               agent |-> [status |-> "found", text |-> <<"x">>]]]
    /\ ret = <<>>
    /\ response = <<>>
    /\ StreamIdle
    /\ CacheIdle

NextChat == ChatBuild

SpecChat == InitChat /\ [][NextChat]_vars

ChatBuilt == ret # <<>> /\ call # <<>> /\ call.fn = "chat"

\* the pieces of the user's text in a request
UntrustedPieces(body) ==
    ({body.prompt, body.original_prompt, body.product_type, body.platform}
        \cup {body.structured_answers[k].question_id :
                 k \in DOMAIN body.structured_answers}
        \cup {body.structured_answers[k].answer :
                 k \in DOMAIN body.structured_answers}) \ {""}

\* the user's text is in no message but the last, which has the role user
OnlyInFinalUserMessage(body, messages) ==
    /\ messages[Len(messages)].role = "user"
    /\ \A k \in 1..(Len(messages) - 1) :
          \A p \in UntrustedPieces(body) : ~InText(p, messages[k].content)
    /\ \E p \in UntrustedPieces(body) :
          InText(p, messages[Len(messages)].content)

\* C34: two chat requests that differ at most in prompt, originalPrompt,
\* structuredAnswers, productType and platform, handled against the same
\* store, both fail in the composition or are both given the same system
\* message, which has no User Idea section; the text of these fields is in
\* no message sent to the provider but the last, of role user.
C34_SystemPromptIndependentOfUserText ==
    ChatBuilt =>
        /\ ret.first.status = ret.second.status
        /\ ret.first.status = "ok" =>
              /\ ret.first.messages[1] = ret.second.messages[1]
              /\ ret.first.messages[1].role = "system"
              /\ ~InText(H_USER, ret.first.messages[1].content)
              /\ OnlyInFinalUserMessage(call.first, ret.first.messages)
              /\ OnlyInFinalUserMessage(call.second, ret.second.messages)

\* two follow-up requests with a current spec that differ in each of the five
\* fields were given the same system message
C34_Witness ==
    /\ ChatBuilt
    /\ ret.first.status = "ok"
    /\ call.first.messages # <<>>
    /\ call.first.current_spec # <<>>
    /\ call.first.prompt # call.second.prompt
    /\ call.first.original_prompt # call.second.original_prompt
    /\ call.first.structured_answers # call.second.structured_answers
    /\ call.first.product_type # call.second.product_type
    /\ call.first.platform # call.second.platform
    /\ ret.first.messages[1] = ret.second.messages[1]
    /\ ret.first.messages[Len(ret.first.messages)]
          # ret.second.messages[Len(ret.second.messages)]

====
